---- MODULE Spec2Model ----
(***************************************************************************)
(* Model of decaf-ts/decoration: the flavour-aware decorator registry and  *)
(* builder (Decoration), the pending-decorator scheduler                   *)
(* (registerPendingDecorator / resolvePendingDecorators) and the metadata  *)
(* store (Metadata).                                                       *)
(*                                                                         *)
(* JavaScript values are encoded as trees: a value is a function from a    *)
(* prefix-closed set of paths (sequences of keys, <<>> being the value     *)
(* itself) to nodes [k |-> "obj" | "leaf", v |-> <primitive>]; an array is  *)
(* a node [k |-> "arr", v |-> <sequence of elements>].                     *)
(***************************************************************************)
EXTENDS Integers, Sequences, FiniteSets, TLC

\* ---------------------------------------------------------------- constants
DefaultFlavour == "decaf"
KeyFlavour == "flavour"
KeyDecoration == "decoration"
KeyProperties == "properties"
KeyMethods == "methods"
KeyLibraries == "libraries"
DesignParams == "design:paramtypes"
StatePending == "pending"
Undefined == "undefined"

\* ------------------------------------------------------------ value trees
Leaf(x) == (<<>> :> [k |-> "leaf", v |-> x])
EmptyObj == (<<>> :> [k |-> "obj", v |-> ""])
UndefV == Leaf(Undefined)
Arr(seq) == (<<>> :> [k |-> "arr", v |-> seq])

IsPrefix(a, p) == Len(a) <= Len(p) /\ SubSeq(p, 1, Len(a)) = a
Suffix(p, q) == SubSeq(q, Len(p) + 1, Len(q))
ProperPrefixes(p) == {SubSeq(p, 1, n) : n \in 0 .. (Len(p) - 1)}

isPlainObject(val) == val[<<>>].k = "obj"
IsUndef(val) == val = UndefV
Has(t, p) == p \in DOMAIN t
\* JS truthiness of a stored value: undefined and "" are falsy, objects and arrays truthy
Truthy(val) == ~IsUndef(val) /\ val # Leaf("")
\* the elements of a stored array ([] when nothing is stored)
Elements(val) == IF val[<<>>].k = "arr" THEN val[<<>>].v ELSE <<>>
IsObjAt(t, p) == p \in DOMAIN t /\ t[p].k = "obj"

\* the value stored at path p of tree t (JS: undefined when a segment is missing)
Subtree(t, p) ==
  IF p \notin DOMAIN t THEN UndefV
  ELSE [s \in {Suffix(p, q) : q \in {x \in DOMAIN t : IsPrefix(p, x)}} |-> t[p \o s]]

OwnKeys(t, p) == {q[Len(p) + 1] : q \in {x \in DOMAIN t : IsPrefix(p, x) /\ Len(x) = Len(p) + 1}}

\* t with the value at p replaced by val; missing or primitive ancestors become {},
\* an ancestor that is an array (typeof "object") is kept and receives the property
Graft(t, p, val) ==
  LET kept == {q \in DOMAIN t : ~IsPrefix(p, q)}
      dom == kept \cup ProperPrefixes(p) \cup {p \o s : s \in DOMAIN val}
  IN [q \in dom |->
        IF IsPrefix(p, q) THEN val[Suffix(p, q)]
        ELSE IF q \in ProperPrefixes(p)
          THEN IF q \in DOMAIN t /\ t[q].k = "arr" THEN t[q] ELSE [k |-> "obj", v |-> ""]
        ELSE t[q]]

\* delete t[p] (the key and everything below it)
Remove(t, p) == [q \in {x \in DOMAIN t : ~IsPrefix(p, x)} |-> t[q]]

getValueBySplitter(obj, path) == Subtree(obj, path)

setValueBySplitter(obj, path, val) ==
  IF Len(path) = 0 THEN obj ELSE Graft(obj, path, val)

\* ------------------------------------------------------------------ bounds
MaxBuilders == 2      \* builders created in one run of the registry specification
MaxExtras == 2        \* extension entries one builder collects before extend() stops
MaxPending == 2       \* entries queued per owner before attachments stop
MaxNest == 1          \* nested wrapper calls followed before a call chain counts as unbounded
MaxOps == 5           \* operations in one run of the scheduler specification
MaxWrites == 3        \* operations in one run of the metadata specification
MaxLevels == 3        \* levels of the inheritance chains handed to the chain merge
MaxIndex == 2         \* largest parameter index requested from Metadata.param

\* ----------------------------------------------------------------- objects
Classes == {"T", "U"}      \* class T {}  and  class U extends T {}
FunctionCtor == "Function"
FunctionProto == "Function.prototype"
\* Object.getPrototypeOf(c) for a class c
\* a second class declared as `class T {}` in another scope: a distinct constructor with
\* the name and the source text of T (a target of the metadata specification only)
Twin == "T (second declaration)"
ParentOf == ("T" :> FunctionProto @@ "U" :> "T" @@ Twin :> FunctionProto)
ProtoOf == ("T" :> "T.prototype" @@ "U" :> "U.prototype")
Protos == {ProtoOf[c] : c \in Classes}
Flavours == {DefaultFlavour, "v"}
\* a second non-default flavour, registered in the replay specification only
OtherFlavour == "w"
RegFlavours == Flavours \cup {OtherFlavour}
Keys == {"k"}
NoKey == ""

IsFunction(x) == x \in Classes \cup {FunctionCtor}
\* JS: x.constructor
ConstructorOf(x) ==
  IF IsFunction(x) THEN FunctionCtor ELSE CHOOSE c \in Classes : ProtoOf[c] = x
\* Metadata.constr: no modelled operation records an original constructor
constr(model) == model
\* typeof target === "function" ? target : target.constructor
OwnerOf(target) == IF IsFunction(target) THEN target ELSE ConstructorOf(target)

\* ------------------------------------------------- decorator data (entries)
\* kind "fn": a decorator function; "obj": {decorator, args}; "bad": any other value
FnEntry(n) == [kind |-> "fn", name |-> n, hasArgs |-> FALSE, args |-> <<>>]
ObjEntry(n, a) == [kind |-> "obj", name |-> n, hasArgs |-> TRUE, args |-> a]
ObjNoArgs(n) == [kind |-> "obj", name |-> n, hasArgs |-> FALSE, args |-> <<>>]
BadEntry == [kind |-> "bad", name |-> "123", hasArgs |-> FALSE, args |-> <<>>]

\* new Set(seq): insertion order kept, later duplicates dropped
RECURSIVE SetOf(_)
SetOf(seq) ==
  IF seq = <<>> THEN <<>>
  ELSE LET r == SetOf(SubSeq(seq, 1, Len(seq) - 1))
           x == seq[Len(seq)]
       IN IF \E i \in 1 .. Len(r) : r[i] = x THEN r ELSE Append(r, x)

\* optional values: <<>> is undefined, <<x>> is x
None == <<>>
Some(x) == <<x>>
IsSome(o) == Len(o) = 1

\* ------------------------------------------------------------ program state
VARIABLES
  reg,       \* Decoration.decorators: key -> flavour -> {decorators, extras}
  cur,       \* the builder being configured (optional)
  wrappers,  \* the decorator functions returned by apply() so far
  nbuilt,    \* builders created so far
  resolver,  \* Decoration.flavourResolver
  meta,      \* Metadata._metadata: symbol -> bucket
  pidx,      \* Metadata._propertiesIndex: symbol -> set of property keys
  st,        \* Decoration.targetStates: owner -> TargetDecorationState
  desc,      \* own property descriptors of the prototypes: proto -> member -> descriptor
  mq,        \* microtasks queued by scheduleDefaultResolve (owners, FIFO)
  log,       \* what the last operation did: behaviours invoked and scheduler steps
  errs,      \* errors reported through console.error by the last operation
  hung,      \* the last operation entered an unbounded chain of nested calls
  last,      \* the last operation and its outcome
  nops,      \* operations performed so far in a run of the scheduler specification
  mirror,    \* Metadata.mirror
  reflect,   \* the own property [Metadata.baseKey] of each constructor (optional)
  operands   \* the values handed to the chain merge (merge specification only)

vars == <<reg, cur, wrappers, nbuilt, resolver, meta, pidx, st, desc, mq, log, errs, hung,
          last, nops, mirror, reflect, operands>>

\* Metadata.Symbol: Symbol.for([obj.toString(), obj.name].join(" - ")); the key of the
\* global symbol registry is modelled as the pair (source text, name)
SourceOf == ("T" :> "class T {}" @@ "U" :> "class U extends T {}" @@ Twin :> "class T {}" @@
             FunctionCtor :> "function Function() { [native code] }" @@
             FunctionProto :> "function () { [native code] }")
NameOf == ("T" :> "T" @@ "U" :> "U" @@ Twin :> "T" @@
           FunctionCtor :> "Function" @@ FunctionProto :> "")
Symbol(obj) == <<SourceOf[obj], NameOf[obj]>>
SymbolFor(str) == <<str>>
\* the models Metadata.set is handed as strings: Symbol.for(model) names the bucket
StringModels == {KeyFlavour}
Constructors == Classes \cup {Twin, FunctionCtor, FunctionProto}
Symbols == {Symbol(x) : x \in Constructors} \cup {SymbolFor(KeyFlavour), SymbolFor(KeyLibraries)}

\* the world an operation runs in: the program state plus the pending exception
World == [reg |-> reg, resolver |-> resolver, meta |-> meta, pidx |-> pidx, st |-> st,
          desc |-> desc, mq |-> mq, log |-> <<>>, errs |-> <<>>, hung |-> FALSE,
          exc |-> "", mirror |-> mirror, reflect |-> reflect]

Throw(w, e) == [w EXCEPT !.exc = e]
Failed(w) == w.exc # "" \/ w.hung

\* -------------------------------------------------------------- Metadata
innerGet(w, symbol, path) ==
  IF IsUndef(w.meta[symbol]) THEN UndefV
  ELSE IF path = <<>> THEN w.meta[symbol]
  ELSE getValueBySplitter(w.meta[symbol], path)

innerSet(w, symbol, path, val) ==
  LET bucket == IF IsUndef(w.meta[symbol]) THEN EmptyObj ELSE w.meta[symbol]
  IN [w EXCEPT !.meta[symbol] = setValueBySplitter(bucket, path, val)]

\* a Metadata.set that defines the mirrored field whatever Metadata.mirror says
MetadataSet_mirrorsAlways(w, model, path, val) ==
  LET symbol == IF model \in StringModels THEN SymbolFor(model) ELSE Symbol(constr(model))
      indexed ==
        IF Len(path) >= 2 /\ path[1] = KeyProperties
          THEN w.pidx[symbol] \cup {Tail(path)}
        ELSE IF path = <<KeyProperties>> /\ isPlainObject(val)
          THEN w.pidx[symbol] \cup {<<x>> : x \in OwnKeys(val, <<>>)}
        ELSE w.pidx[symbol]
      mirrored == [enumerable |-> FALSE, configurable |-> FALSE, writable |-> FALSE,
                   value |-> symbol]
      w1 == innerSet([w EXCEPT !.pidx[symbol] = indexed], symbol, path, val)
  IN IF model \notin StringModels /\ ~IsSome(w.reflect[constr(model)])
       THEN [w1 EXCEPT !.reflect[constr(model)] = Some(mirrored)]
     ELSE w1

\* Metadata.set(model, key, value) for a class or function model; key is the list of
\* the dot-separated segments of the key string
MetadataSet(w, model, path, val) ==
  LET symbol == IF model \in StringModels THEN SymbolFor(model) ELSE Symbol(constr(model))
      indexed ==
        IF Len(path) >= 2 /\ path[1] = KeyProperties
          THEN w.pidx[symbol] \cup {Tail(path)}
        ELSE IF path = <<KeyProperties>> /\ isPlainObject(val)
          THEN w.pidx[symbol] \cup {<<x>> : x \in OwnKeys(val, <<>>)}
        ELSE w.pidx[symbol]
      mirrored == [enumerable |-> FALSE, configurable |-> FALSE, writable |-> FALSE,
                   value |-> symbol]
      w1 == innerSet([w EXCEPT !.pidx[symbol] = indexed], symbol, path, val)
  IN IF model \notin StringModels /\ w.mirror /\ ~IsSome(w.reflect[constr(model)])
       THEN [w1 EXCEPT !.reflect[constr(model)] = Some(mirrored)]
     ELSE w1

\* Metadata.collectConstructorChain: from the most-base constructor to model itself.
\* The walk stops at Function and Object only, so Function.prototype heads every chain.
RECURSIVE collectConstructorChain(_)
collectConstructorChain(model) ==
  IF model = FunctionCtor THEN <<>>
  ELSE IF model = FunctionProto THEN <<FunctionProto>>
  ELSE Append(collectConstructorChain(ParentOf[model]), model)

\* Metadata.cloneMetadataValue: plain objects are cloned deeply and arrays by their
\* elements ([...value]), which leaves the named properties of an array behind
cloneMetadataValue(val) ==
  [q \in {x \in DOMAIN val : \A p \in ProperPrefixes(x) : val[p].k # "arr"} |-> val[q]]

\* a merge that lets each top-level key of the source replace the target's
mergePlainObjects_shallow(a, b) ==
  LET keepA == {q \in DOMAIN a : q = <<>> \/ <<q[1]>> \notin DOMAIN b}
      copied == {x \in DOMAIN b : \A p \in ProperPrefixes(x) : b[p].k # "arr"}
  IN [q \in keepA \cup copied |-> IF q \in copied THEN b[q] ELSE a[q]]

\* Metadata.mergePlainObjects(target, source) on trees
mergePlainObjects(a, b) ==
  LET keepA == {q \in DOMAIN a :
                  \A p \in ProperPrefixes(q) \cup {q} :
                     p \in DOMAIN b => (a[p].k = "obj" /\ b[p].k = "obj")}
      copied == {x \in DOMAIN b : \A p \in ProperPrefixes(x) : b[p].k # "arr"}
  IN [q \in keepA \cup copied |-> IF q \in copied THEN b[q] ELSE a[q]]

\* Metadata.mergeMetadataChain over values[1 .. n]
RECURSIVE mergeMetadataChain(_, _)
mergeMetadataChain(values, n) ==
  IF n = 1 THEN cloneMetadataValue(values[1])
  ELSE LET acc == mergeMetadataChain(values, n - 1)
           value == values[n]
       IN IF isPlainObject(acc) /\ isPlainObject(value) THEN mergePlainObjects(acc, value)
          ELSE cloneMetadataValue(value)

\* Metadata.isDecorated
isDecorated(w, model) ==
  LET m == innerGet(w, Symbol(constr(model)), <<KeyDecoration>>)
  IN IF IsUndef(m) THEN Leaf("false") ELSE m

\* metadataLink.ts resolvePendingDecorators: no pending resolver is ever registered
\* (registerPendingResolver has no caller), so the forced resolution does nothing
linkResolvePendingDecorators(w, target) == w

RECURSIVE ForcePending(_, _, _)
ForcePending(w, constructors, i) ==
  IF i > Len(constructors) THEN w
  ELSE ForcePending(
         IF isDecorated(w, constructors[i]) = Leaf(StatePending)
           THEN linkResolvePendingDecorators(w, constructors[i]) ELSE w,
         constructors, i + 1)

SelectDefined(vals) == SelectSeq(vals, LAMBDA v : ~IsUndef(v))

\* a clone that hands its argument back as it is
Uncopied_whole(val) == DOMAIN cloneMetadataValue(val)
\* the nodes of a cloned value that are the very nodes of the value cloned:
\* cloneMetadataValue and mergePlainObjects build a new array for an array ([...value])
\* and a new object for a plain object, and return any other value as it is
Uncopied(val) == {q \in DOMAIN cloneMetadataValue(val) : val[q].k \notin {"obj", "arr"}}

\* the nodes of mergeMetadataChain(values[1 .. n]) that are nodes of the store: node `at`
\* of the result is the node at the same place of the value read from bucket `symbol`.
\* A merge keeps by reference the keys of the accumulator that the source does not hold.
RECURSIVE returnedAliases(_, _, _)
returnedAliases(values, symbols, n) ==
  LET fromSource == {[at |-> q, symbol |-> symbols[n]] : q \in Uncopied(values[n])}
  IN IF n = 1 THEN fromSource
     ELSE LET acc == mergeMetadataChain(values, n - 1)
              value == values[n]
          IN IF isPlainObject(acc) /\ isPlainObject(value)
               THEN {al \in returnedAliases(values, symbols, n - 1) :
                       /\ al.at \in DOMAIN mergePlainObjects(acc, value)
                       /\ al.at \notin DOMAIN cloneMetadataValue(value)} \cup fromSource
             ELSE fromSource

\* Metadata.get(model, key): the world after the read, the value it returns and the
\* nodes of that value which the caller shares with the store
MetadataGet(w, model, path) ==
  LET constructors == collectConstructorChain(constr(model))
      w1 == ForcePending(w, constructors, 1)
      defining == SelectSeq(constructors,
                            LAMBDA k : ~IsUndef(innerGet(w1, Symbol(k), path)))
      collected == [i \in 1 .. Len(defining) |-> innerGet(w1, Symbol(defining[i]), path)]
      symbols == [i \in 1 .. Len(defining) |-> Symbol(defining[i])]
  IN [w |-> w1,
      value |-> IF Len(collected) = 0 THEN UndefV
                ELSE mergeMetadataChain(collected, Len(collected)),
      aliases |-> IF Len(collected) = 0 THEN {}
                  ELSE {[at |-> al.at, symbol |-> al.symbol, path |-> path \o al.at] :
                          al \in returnedAliases(collected, symbols, Len(collected))}]

\* Metadata.properties(model): the world after the call, whether a list is returned and
\* the names listed. An index entry is the key with the "properties." prefix sliced
\* off, so it keeps the remaining segments of a nested key.
properties(w, model) ==
  LET resolvedModel == constr(model)
      indexed == w.pidx[Symbol(resolvedModel)]
      g == MetadataGet(w, resolvedModel, <<>>)
      props == Subtree(g.value, <<KeyProperties>>)
  IN IF indexed # {} THEN [w |-> w, defined |-> TRUE, names |-> indexed]
     ELSE IF ~Truthy(g.value) \/ ~Truthy(props)
       THEN [w |-> g.w, defined |-> FALSE, names |-> {}]
     ELSE [w |-> g.w, defined |-> TRUE, names |-> {<<x>> : x \in OwnKeys(props, <<>>)}]

\* Metadata.params(model, prop) and the bounds test of Metadata.param: arrays are the
\* only values with a length that the modelled writes store under design:paramtypes
ParamError(prop, index) ==
  "Parameter index " \o ToString(index) \o " out of range for " \o prop
\* a bounds test that lets the index one past the end through
param_offByOne(w, model, prop, index) ==
  LET g == MetadataGet(w, model, <<KeyMethods, prop, DesignParams>>)
  IN IF ~Truthy(g.value) THEN [w |-> g.w, value |-> UndefV]
     ELSE IF g.value[<<>>].k = "arr" /\ index > Len(Elements(g.value))
       THEN [w |-> Throw(g.w, ParamError(prop, index)), value |-> UndefV]
     ELSE IF g.value[<<>>].k = "arr" /\ index + 1 \in DOMAIN Elements(g.value)
       THEN [w |-> g.w, value |-> Leaf(Elements(g.value)[index + 1])]
     ELSE [w |-> g.w, value |-> UndefV]
\* Metadata.param(model, prop, index): the world after the call and the value returned
param(w, model, prop, index) ==
  LET g == MetadataGet(w, model, <<KeyMethods, prop, DesignParams>>)
  IN IF ~Truthy(g.value) THEN [w |-> g.w, value |-> UndefV]
     ELSE IF g.value[<<>>].k = "arr" /\ index > Len(Elements(g.value)) - 1
       THEN [w |-> Throw(g.w, ParamError(prop, index)), value |-> UndefV]
     ELSE IF g.value[<<>>].k = "arr" /\ index + 1 \in DOMAIN Elements(g.value)
       THEN [w |-> g.w, value |-> Leaf(Elements(g.value)[index + 1])]
     ELSE [w |-> g.w, value |-> UndefV]

\* decorators.ts metadata(key, value)(model, prop)
metadata(w, path, val, model, prop) ==
  MetadataSet(w, IF prop # "" THEN ConstructorOf(model) ELSE model, path, Leaf(val))

\* ------------------------------------------------- behaviours (user callables)
\* What the decorator functions handed to define()/extend() do when invoked:
\*   B1 B2 X Y Xd  record the call only (the tests' log.push / jest.fn doubles)
\*   Wd            metadata("d", <member>)            one path for every member
\*   Wv            metadata("v.<member>", "Wv")
\*   Ww            metadata("w.<member>", "Ww")
\*   Wp            metadata("properties.<member>", "Wp")
\*   F             factory: (arg) => metadata("f.<member>", arg)
\*   innerProp     decorators.ts prop(): metadata("properties.<prop>", design type)
\*   Wrap Wrap2    return a new property descriptor wrapping the one they are given
\*   Sub           returns a replacement class (class U) when it decorates a class
\*   Wt            throws for member m1, metadata("t.<member>", "Wt") otherwise
\*   Wu            uses("v")(owner): assigns the variant v to the class it decorates or
\*                 to the class of the member it decorates
Loggers == {"B1", "B2", "X", "Y", "Xd", "Wrap", "Wrap2", "Sub"}
MemberOrClass(member) == IF member = "" THEN "class" ELSE member
BehPath(n, member) ==
  CASE n = "Wd" -> <<"d">>
    [] n = "Wv" -> <<"v", MemberOrClass(member)>>
    [] n = "Ww" -> <<OtherFlavour, MemberOrClass(member)>>
    [] n = "Wp" -> <<KeyProperties, MemberOrClass(member)>>
    [] n = "F" -> <<"f", MemberOrClass(member)>>
    [] n = "Wt" -> <<"t", MemberOrClass(member)>>
    [] n = "innerProp" -> <<KeyProperties, member>>
    [] OTHER -> <<>>
BehValue(n, args, member) ==
  CASE n = "Wd" -> MemberOrClass(member)
    [] n = "F" -> IF Len(args) > 0 THEN args[1] ELSE Undefined
    [] n = "innerProp" -> Undefined
    [] OTHER -> n

\* what a logged step did to the owner's bucket and properties index (recorded for the
\* reverts only)
NoEffect ==
  [before |-> UndefV, after |-> UndefV, indexBefore |-> {}, indexAfter |-> {}, diff |-> {}]
LogRec(op, n, args, target, member, idx) ==
  [op |-> op, name |-> n, args |-> args, target |-> target, member |-> member, idx |-> idx,
   effect |-> NoEffect]
CallRec(n, args, target, member) == LogRec("call", n, args, target, member, 0)
Logged(w, rec) == [w EXCEPT !.log = Append(@, rec)]

\* the invocations that throw
Throws(n, member) == n = "Wt" /\ member = "m1"

RECURSIVE uses(_, _, _, _)

\* invoke behaviour n (built with args when it is a factory) on (target, member)
Invoke(w, n, args, target, member) ==
  LET w1 == [w EXCEPT !.log = Append(@, CallRec(n, args, target, member))]
  IN IF n \in Loggers THEN w1
     ELSE IF Throws(n, member) THEN Throw(w1, "Error: boom")
     ELSE IF n = "Wu" THEN uses(w1, "v", OwnerOf(target), 0)
     ELSE metadata(w1, BehPath(n, member), BehValue(n, args, member), target, member)

\* --------------------------------------------------------- flavour resolver
Resolvers == {"builtin", "toDecaf", "toV", "onlyU"}
SchedResolvers == {"builtin", "toDecaf", "toV"}

\* Metadata.flavouredAs(flavour): the constructors in the bucket of a flavour
flavouredAs(w, flavour) == Elements(innerGet(w, SymbolFor(KeyFlavour), <<flavour>>))

\* Metadata.registeredFlavour: the first non-default flavour whose bucket lists the
\* owner, the default flavour when only its bucket does (the loop follows the key
\* order of the registry; Flavours holds one non-default flavour, so no order matters)
registeredFlavour(w, owner) ==
  LET lists(f) == \E i \in 1 .. Len(flavouredAs(w, f)) : constr(flavouredAs(w, f)[i]) = constr(owner)
  IN IF IsUndef(innerGet(w, SymbolFor(KeyFlavour), <<>>)) THEN Undefined
     ELSE IF \E f \in Flavours \ {DefaultFlavour} : lists(f)
       THEN CHOOSE f \in Flavours \ {DefaultFlavour} : lists(f)
     ELSE IF lists(DefaultFlavour) THEN DefaultFlavour
     ELSE Undefined

\* assignFlavour(object, flavour, defaultFlavour)
assignFlavour(w, object, flavour, defaultFlavour) ==
  LET canonical == constr(object)
      recorded == innerGet(w, Symbol(object), <<KeyFlavour>>)
      previousFlavour == IF Truthy(recorded) THEN recorded[<<>>].v ELSE defaultFlavour
      filtered == SelectSeq(flavouredAs(w, previousFlavour),
                            LAMBDA entry : constr(entry) # canonical)
      w1 == MetadataSet(w, KeyFlavour, <<previousFlavour>>, Arr(filtered))
      nextBucket == SetOf(Append(flavouredAs(w1, flavour), object))
      w2 == MetadataSet(w1, KeyFlavour, <<flavour>>, Arr(nextBucket))
  IN MetadataSet(w2, canonical, <<KeyFlavour>>, Leaf(flavour))

\* Metadata.registerLibrary(library, version); library is the list of the dot-separated
\* segments of the name, which is how innerGet and innerSet read it
registerLibrary(w, library, version) ==
  LET lib == innerGet(w, SymbolFor(KeyLibraries), library)
  IN IF Truthy(lib) THEN Throw(w, "Library already registered")
     ELSE innerSet(w, SymbolFor(KeyLibraries), library, Leaf(version))

\* Metadata.libraries()
libraries(w) ==
  IF Truthy(innerGet(w, SymbolFor(KeyLibraries), <<>>))
    THEN innerGet(w, SymbolFor(KeyLibraries), <<>>)
  ELSE EmptyObj

\* Decoration.ts flavourResolver (the default resolver)
flavourResolver(w, target) ==
  LET owner == constr(OwnerOf(target))
      m == innerGet(w, Symbol(owner), <<KeyFlavour>>)
      mv == IF isPlainObject(m) THEN "[object]" ELSE m[<<>>].v
      registered == registeredFlavour(w, owner)
  IN IF mv # Undefined /\ mv # DefaultFlavour THEN mv
     ELSE IF registered # Undefined /\ registered # DefaultFlavour THEN registered
     ELSE IF mv # Undefined THEN mv ELSE DefaultFlavour

\* Decoration.flavourResolver(target) for the installed resolver
ResolveFlavour(w, target) ==
  CASE w.resolver = "builtin" -> flavourResolver(w, target)
    [] w.resolver = "toDecaf" -> DefaultFlavour
    [] w.resolver = "toV" -> "v"
    [] w.resolver = "onlyU" -> IF target = "U" THEN "v" ELSE DefaultFlavour

\* ----------------------------------------------------- registry and builder
RegKeys == Keys \cup {KeyProperties}
AbsentBucket == [present |-> FALSE, decorators |-> <<>>, extras |-> None]
EmptyRegistry == [k \in RegKeys |-> [f \in RegFlavours |-> AbsentBucket]]

NewBuilder(flavour) ==
  [flavour |-> flavour, key |-> NoKey, decorators |-> None, extras |-> None]

\* Decoration.prototype.for
BuilderFor(b, key) == [b EXCEPT !.key = key]

HasObject(ds) == \E i \in 1 .. Len(ds) : ds[i].kind = "obj"

\* a decorate that accepts a builder without a key
decorate_noKeyCheck(b, addon, ds) ==
  IF Len(ds) = 0 /\ ~addon /\ b.flavour # DefaultFlavour
    THEN [b |-> b, exc |-> "Must provide overrides or addons"]
  ELSE IF addon
    THEN [b |-> [b EXCEPT !.extras =
                    Some(SetOf((IF IsSome(b.extras) THEN b.extras[1] ELSE <<>>) \o ds))],
          exc |-> ""]
  ELSE [b |-> [b EXCEPT !.decorators = Some(SetOf(ds))], exc |-> ""]

\* Decoration.prototype.decorate: the builder afterwards and the error thrown, if any
decorate(b, addon, ds) ==
  IF b.key = NoKey
    THEN [b |-> b, exc |-> "key must be provided before decorators can be added"]
  ELSE IF Len(ds) = 0 /\ ~addon /\ b.flavour # DefaultFlavour
    THEN [b |-> b, exc |-> "Must provide overrides or addons"]
  ELSE IF addon
    THEN [b |-> [b EXCEPT !.extras =
                    Some(SetOf((IF IsSome(b.extras) THEN b.extras[1] ELSE <<>>) \o ds))],
          exc |-> ""]
  ELSE [b |-> [b EXCEPT !.decorators = Some(SetOf(ds))], exc |-> ""]

\* a define that hands any list of entries on to decorate
define_unchecked(b, ds) == decorate(b, FALSE, ds)

\* Decoration.prototype.define
define(b, ds) ==
  IF HasObject(ds) /\ Len(ds) # 1
    THEN [b |-> b, exc |-> "When using an overridable decorator, only one is allowed"]
  ELSE decorate(b, FALSE, ds)

\* Decoration.prototype.extend
extend(b, ds) ==
  IF HasObject(ds) /\ Len(ds) # 1
    THEN [b |-> b, exc |-> "When extending using an overridable decorator, only one is allowed"]
  ELSE decorate(b, TRUE, ds)

\* a register that stores the extras it is handed even when they are undefined
register_overwritesExtras(w, key, flavour, decorators, extras) ==
  IF key = NoKey THEN Throw(w, "No key provided for the decoration builder")
  ELSE [w EXCEPT !.reg[key][flavour] =
          [present |-> TRUE, decorators |-> decorators, extras |-> extras]]

\* Decoration.register (decorators is always a Set when apply() calls it)
register(w, key, flavour, decorators, extras) ==
  IF key = NoKey THEN Throw(w, "No key provided for the decoration builder")
  ELSE [w EXCEPT !.reg[key][flavour] =
          [present |-> TRUE,
           decorators |-> decorators,
           extras |-> IF IsSome(extras) THEN extras ELSE @.extras]]

\* the registration half of Decoration.prototype.apply
applyRegister(w, b) ==
  IF b.key = NoKey THEN Throw(w, "No key provided for the decoration builder")
  ELSE LET existing == w.reg[b.key][b.flavour]
           decoratorsToRegister ==
             IF IsSome(b.decorators) THEN b.decorators[1]
             ELSE IF existing.present THEN existing.decorators
             ELSE <<>>
       IN register(w, b.key, b.flavour, decoratorsToRegister, b.extras)

\* the decorator function apply() returns: it captures the key and its builder, whose
\* flavour and base set it reads at every call (a builder is not touched after apply())
WrapperOf(b) == [flavour |-> b.flavour, key |-> b.key, decorators |-> b.decorators]

\* Decoration.prototype.snapshotDecoratorArgs: index -> args of the builder's base
\* entries that carry args (indices are 1-based here, 0-based in the source)
snapshotDecoratorArgs(wr) ==
  IF ~IsSome(wr.decorators) \/ Len(wr.decorators[1]) = 0 THEN None
  ELSE LET ds == wr.decorators[1]
           idx == {i \in 1 .. Len(ds) : ds[i].kind = "obj" /\ ds[i].hasArgs}
       IN IF idx = {} THEN None ELSE Some([i \in idx |-> ds[i].args])

\* ------------------------------------------------------------------ dispatch
\* index -> args of the entries of a list that carry an args array
ArgsByIndex(ds) ==
  [i \in {j \in 1 .. Len(ds) : ds[j].kind = "obj" /\ ds[j].hasArgs} |-> ds[i].args]

\* what a behaviour returns: Wrap and Wrap2 answer a member-level call with a new
\* descriptor
BehResult(n, member, descriptor) ==
  IF n \in {"Wrap", "Wrap2"} /\ member # ""
    THEN Some(Append(IF IsSome(descriptor) THEN descriptor[1] ELSE <<>>, n))
  ELSE None
\* the class an owner-level call of a behaviour leaves as the current target: Sub
\* returns a function (class U), every other behaviour returns undefined
BehTarget(n, target) == IF n = "Sub" THEN "U" ELSE target

\* a forEach loop that passes over an entry that is neither a function nor an object
RECURSIVE ApplyList_skipsUnknown(_, _, _, _, _, _, _, _, _, _)
ApplyList_skipsUnknown(w, toApply, i, baseLength, overrides, baseArgs, defaultArgs, target, member, cd) ==
  IF Failed(w) \/ i > Len(toApply) THEN [w |-> w, descriptor |-> cd, target |-> target]
  ELSE
    LET d == toApply[i]
        candidateIndex == IF i <= baseLength THEN i ELSE 1
        hasOverride == i <= baseLength /\ IsSome(overrides)
                       /\ candidateIndex \in DOMAIN overrides[1]
        args ==
          IF hasOverride THEN overrides[1][candidateIndex]
          ELSE IF d.hasArgs THEN d.args
          ELSE IF candidateIndex \in DOMAIN baseArgs THEN baseArgs[candidateIndex]
          ELSE IF candidateIndex \in DOMAIN defaultArgs THEN defaultArgs[candidateIndex]
          ELSE IF 1 \in DOMAIN defaultArgs THEN defaultArgs[1]
          ELSE <<>>
    IN IF d.kind = "bad"
         THEN ApplyList_skipsUnknown(w, toApply, i + 1, baseLength, overrides, baseArgs,
                                     defaultArgs, target, member, cd)
       ELSE
         LET callArgs == IF d.kind = "obj" THEN args ELSE <<>>
             w1 == Invoke(w, d.name, callArgs, target, member)
             result == BehResult(d.name, member, cd)
             cd1 == IF member # "" /\ IsSome(result) THEN result ELSE cd
         IN ApplyList_skipsUnknown(w1, toApply, i + 1, baseLength, overrides, baseArgs,
                                   defaultArgs,
                                   IF member = "" THEN BehTarget(d.name, target) ELSE target,
                                   member, cd1)

\* a forEach loop that hands the class it was called with to every behaviour
RECURSIVE ApplyList_keepsTarget(_, _, _, _, _, _, _, _, _, _)
ApplyList_keepsTarget(w, toApply, i, baseLength, overrides, baseArgs, defaultArgs, target, member, cd) ==
  IF Failed(w) \/ i > Len(toApply) THEN [w |-> w, descriptor |-> cd, target |-> target]
  ELSE
    LET d == toApply[i]
        candidateIndex == IF i <= baseLength THEN i ELSE 1
        hasOverride == i <= baseLength /\ IsSome(overrides)
                       /\ candidateIndex \in DOMAIN overrides[1]
        args ==
          IF hasOverride THEN overrides[1][candidateIndex]
          ELSE IF d.hasArgs THEN d.args
          ELSE IF candidateIndex \in DOMAIN baseArgs THEN baseArgs[candidateIndex]
          ELSE IF candidateIndex \in DOMAIN defaultArgs THEN defaultArgs[candidateIndex]
          ELSE IF 1 \in DOMAIN defaultArgs THEN defaultArgs[1]
          ELSE <<>>
    IN IF d.kind = "bad"
         THEN [w |-> Throw(w, "Unexpected decorator type"), descriptor |-> cd,
               target |-> target]
       ELSE
         LET callArgs == IF d.kind = "obj" THEN args ELSE <<>>
             w1 == Invoke(w, d.name, callArgs, target, member)
             result == BehResult(d.name, member, cd)
             cd1 == IF member # "" /\ IsSome(result) THEN result ELSE cd
         IN ApplyList_keepsTarget(w1, toApply, i + 1, baseLength, overrides, baseArgs,
                                  defaultArgs, target, member, cd1)

\* the toApply.forEach loop of contextDecorator, from index i on
RECURSIVE ApplyList(_, _, _, _, _, _, _, _, _, _)
ApplyList(w, toApply, i, baseLength, overrides, baseArgs, defaultArgs, target, member, cd) ==
  IF Failed(w) \/ i > Len(toApply) THEN [w |-> w, descriptor |-> cd, target |-> target]
  ELSE
    LET d == toApply[i]
        candidateIndex == IF i <= baseLength THEN i ELSE 1
        hasOverride == i <= baseLength /\ IsSome(overrides)
                       /\ candidateIndex \in DOMAIN overrides[1]
        args ==
          IF hasOverride THEN overrides[1][candidateIndex]
          ELSE IF d.hasArgs THEN d.args
          ELSE IF candidateIndex \in DOMAIN baseArgs THEN baseArgs[candidateIndex]
          ELSE IF candidateIndex \in DOMAIN defaultArgs THEN defaultArgs[candidateIndex]
          ELSE IF 1 \in DOMAIN defaultArgs THEN defaultArgs[1]
          ELSE <<>>
    IN IF d.kind = "bad"
         THEN [w |-> Throw(w, "Unexpected decorator type"), descriptor |-> cd,
               target |-> target]
       ELSE
         LET callArgs == IF d.kind = "obj" THEN args ELSE <<>>
             w1 == Invoke(w, d.name, callArgs, target, member)
             result == BehResult(d.name, member, cd)
             cd1 == IF member # "" /\ IsSome(result) THEN result ELSE cd
         IN ApplyList(w1, toApply, i + 1, baseLength, overrides, baseArgs, defaultArgs,
                      IF member = "" THEN BehTarget(d.name, target) ELSE target,
                      member, cd1)

\* a composition that appends the extras of every flavour
Composed_everyExtras(w, key, flavour) ==
  LET cache == w.reg[key]
      dflt == cache[DefaultFlavour]
      other == cache["v"]
      all == (IF IsSome(dflt.extras) THEN dflt.extras[1] ELSE <<>>)
             \o (IF IsSome(other.extras) THEN other.extras[1] ELSE <<>>)
  IN IF ~dflt.present THEN [exc |-> "TypeError", base |-> <<>>, extras |-> <<>>]
     ELSE [exc |-> "",
           base |-> IF cache[flavour].present /\ Len(cache[flavour].decorators) > 0
                      THEN cache[flavour].decorators ELSE dflt.decorators,
           extras |-> all]

\* the lists contextDecorator composes for (key, flavour); exc is the TypeError raised
\* when it reads a bucket that does not exist
Composed(w, key, flavour) ==
  LET cache == w.reg[key]
      own == cache[flavour]
      dflt == cache[DefaultFlavour]
  IN IF ~own.present /\ ~dflt.present
       THEN [exc |-> "TypeError", base |-> <<>>, extras |-> <<>>]
     ELSE LET extras == IF own.present THEN own.extras ELSE dflt.extras
          IN IF own.present /\ Len(own.decorators) > 0
               THEN [exc |-> "", base |-> own.decorators,
                     extras |-> IF IsSome(extras) THEN extras[1] ELSE <<>>]
             ELSE IF ~dflt.present
               THEN [exc |-> "TypeError", base |-> <<>>, extras |-> <<>>]
             ELSE [exc |-> "", base |-> dflt.decorators,
                   extras |-> IF IsSome(extras) THEN extras[1] ELSE <<>>]

\* a contextDecorator that takes every argument list from the registry
applyComposed_registryArgs(w, c, dflt, overrides, target, member, descriptor) ==
  IF c.exc # "" THEN [w |-> Throw(w, c.exc), descriptor |-> descriptor, target |-> target]
  ELSE ApplyList(w, c.base \o c.extras, 1, Len(c.base), None,
                 ArgsByIndex(c.base),
                 ArgsByIndex(IF dflt.present THEN dflt.decorators ELSE <<>>),
                 target, member, descriptor)

\* the body of contextDecorator once the lists c are composed; dflt is the default
\* flavour's bucket
applyComposed(w, c, dflt, overrides, target, member, descriptor) ==
  IF c.exc # "" THEN [w |-> Throw(w, c.exc), descriptor |-> descriptor, target |-> target]
  ELSE ApplyList(w, c.base \o c.extras, 1, Len(c.base), overrides,
                 ArgsByIndex(c.base),
                 ArgsByIndex(IF dflt.present THEN dflt.decorators ELSE <<>>),
                 target, member, descriptor)

\* decoratorFactory(key, f, overrides)(target, propertyKey, descriptor); f = "" when
\* the factory is not bound to a flavour
contextDecorator(w, key, f, overrides, target, member, descriptor) ==
  applyComposed(w, Composed(w, key, IF f # "" THEN f ELSE ResolveFlavour(w, target)),
                w.reg[key][DefaultFlavour], overrides, target, member, descriptor)

\* ------------------------------------------------ metadata diff and rollback
\* diffMetadataBuckets(before, after): the set of {path, previousValue, existed}.
\* The recursion descends only where both sides hold a plain object (Reached), and
\* under a key that is new it descends through plain objects down to the leaves.
DiffEntry(path, prev, existed) == [path |-> path, previousValue |-> prev, existed |-> existed]
diffMetadataBuckets(before, after) ==
  LET B == IF IsUndef(before) THEN EmptyObj ELSE before
      A == IF IsUndef(after) THEN EmptyObj ELSE after
      Reached(p) == \A a \in ProperPrefixes(p) : IsObjAt(B, a) /\ IsObjAt(A, a)
      removed == {p \in DOMAIN B : p # <<>> /\ p \notin DOMAIN A /\ Reached(p)}
      changed == {p \in DOMAIN B \cap DOMAIN A :
                    p # <<>> /\ Reached(p) /\ ~(B[p].k = "obj" /\ A[p].k = "obj")
                    /\ B[p] # A[p]}
      added == {q \in DOMAIN A :
                  A[q].k = "leaf"
                  /\ \E n \in 1 .. Len(q) :
                       SubSeq(q, 1, n) \notin DOMAIN B /\ Reached(SubSeq(q, 1, n))}
  IN {DiffEntry(p, Subtree(B, p), TRUE) : p \in removed \cup changed}
     \cup {DiffEntry(q, UndefV, FALSE) : q \in added}

Front(p) == SubSeq(p, 1, Len(p) - 1)

RECURSIVE pruneEmptyAncestors(_, _)
pruneEmptyAncestors(bucket, path) ==
  IF path = <<>> THEN bucket
  ELSE IF IsObjAt(bucket, path) /\ OwnKeys(bucket, path) = {}
    THEN pruneEmptyAncestors(Remove(bucket, path), Front(path))
  ELSE bucket

\* an iteration that reverts the paths under "properties" like any other path
RevertOne_properties(bucket, e) ==
  IF Len(e.path) = 0 THEN bucket
  ELSE IF e.existed THEN Graft(bucket, e.path, e.previousValue)
  ELSE LET parent == Front(e.path)
           b1 == IF IsObjAt(bucket, parent) THEN bucket ELSE Graft(bucket, parent, EmptyObj)
       IN pruneEmptyAncestors(Remove(b1, e.path), parent)

\* one iteration of the diff.forEach of revertMetadataDiff
RevertOne(bucket, e) ==
  IF Len(e.path) = 0 \/ e.path[1] = KeyProperties THEN bucket
  ELSE IF e.existed THEN Graft(bucket, e.path, e.previousValue)
  ELSE LET parent == Front(e.path)
           b1 == IF IsObjAt(bucket, parent) THEN bucket ELSE Graft(bucket, parent, EmptyObj)
       IN pruneEmptyAncestors(Remove(b1, e.path), parent)

\* the entries of one diff have pairwise unrelated paths, so the order in which
\* they are reverted does not change the outcome
RECURSIVE RevertAll(_, _)
RevertAll(bucket, diff) ==
  IF diff = {} THEN bucket
  ELSE LET e == CHOOSE x \in diff : TRUE
       IN RevertAll(RevertOne(bucket, e), diff \ {e})

revertMetadataDiff(w, owner, diff) ==
  IF diff = {} THEN w
  ELSE LET symbol == Symbol(owner)
           bucket == IF IsUndef(w.meta[symbol]) THEN EmptyObj ELSE w.meta[symbol]
       IN [w EXCEPT !.meta[symbol] = RevertAll(bucket, diff)]

\* own property descriptor of target[member]; classes carry no own member descriptors
OwnDescriptor(w, target, member) ==
  IF target \in DOMAIN w.desc THEN w.desc[target][member] ELSE None
defineProperty(w, target, member, d) ==
  IF target \in DOMAIN w.desc THEN [w EXCEPT !.desc[target][member] = Some(d)] ELSE w
deleteProperty(w, target, member) ==
  IF target \in DOMAIN w.desc THEN [w EXCEPT !.desc[target][member] = None] ELSE w

restorePropertyDescriptor(w, e) ==
  IF e.member = "" \/ ~IsSome(e.descriptorWasOwn) THEN w
  ELSE IF IsSome(e.descriptorSnapshot)
    THEN defineProperty(deleteProperty(w, e.target, e.member), e.target, e.member,
                        e.descriptorSnapshot[1])
  ELSE deleteProperty(w, e.target, e.member)

\* ------------------------------------------------------------------ scheduler
\* TargetDecorationState as getTargetState creates it ("" and 0 stand for undefined)
FreshState ==
  [pending |-> <<>>, flavour |-> "", directApply |-> FALSE, resolved |-> FALSE,
   lastAppliedFlavour |-> "", appliedCount |-> 0, applying |-> FALSE, passId |-> 0,
   resolveScheduled |-> FALSE]

\* PendingDecorator; callback and argsFactory are determined by definitionKey and
\* argsOverride (the wrapper's closure)
NewEntry(target, member, descriptor, argsOverride, definitionKey) ==
  [target |-> target, member |-> member, descriptor |-> descriptor,
   argsOverride |-> argsOverride, definitionKey |-> definitionKey,
   lastAppliedPass |-> 0, lastAppliedFlavour |-> "",
   hasDiff |-> FALSE, metadataDiff |-> {},
   descriptorSnapshot |-> None, descriptorWasOwn |-> None]

\* a shouldOverrideEntry that asks for a replay whenever the variant is not the default
shouldOverrideEntry_always(w, e, flavour) ==
  e.definitionKey # NoKey /\ flavour # DefaultFlavour

\* Decoration.shouldOverrideEntry; every builder creates its own Set objects and is
\* bound to one flavour, so the two identity comparisons with the default bucket's
\* sets are false whenever the flavour is not the default one
shouldOverrideEntry(w, e, flavour) ==
  IF e.definitionKey = NoKey THEN FALSE
  ELSE IF flavour = DefaultFlavour THEN FALSE
  ELSE LET flavourBucket == w.reg[e.definitionKey][flavour]
           hasDecorators == Len(flavourBucket.decorators) > 0
           hasExtras == IsSome(flavourBucket.extras) /\ Len(flavourBucket.extras[1]) > 0
       IN flavourBucket.present /\ (hasDecorators \/ hasExtras)

\* a catch block that reports the exception and throws it again
Caught_rethrows(w, what) ==
  IF w.exc = "" THEN w ELSE [w EXCEPT !.errs = Append(@, <<what, w.exc>>)]

\* console.error inside a catch block: the exception is reported and cleared
Caught(w, what) ==
  IF w.exc = "" THEN w ELSE [w EXCEPT !.errs = Append(@, <<what, w.exc>>), !.exc = ""]

Hang(w) == [w EXCEPT !.hung = TRUE]

\* decorators.ts method()(obj, prop, descriptor)
method(w, obj, member) ==
  metadata(metadata(w, <<KeyMethods, member, "design:paramtypes">>, Undefined, obj, member),
           <<KeyMethods, member, "design:returntype">>, Undefined, obj, member)

\* g (the outcome of Metadata.get(owner, FLAVOUR)) || defaultFlavour
orDefaultFlavour(g) ==
  LET f == IF isPlainObject(g.value) THEN "[object]" ELSE g.value[<<>>].v
  IN [w |-> g.w, flavour |-> IF f = Undefined \/ f = "" THEN DefaultFlavour ELSE f]

\* a fallback chain that leaves out state.flavour
StoredFlavour_metadataOnly(w, owner) ==
  orDefaultFlavour(MetadataGet(w, owner, <<KeyFlavour>>))

\* state.flavour || Metadata.get(owner, FLAVOUR) || defaultFlavour
StoredFlavour(w, owner) ==
  IF w.st[owner].flavour # "" THEN [w |-> w, flavour |-> w.st[owner].flavour]
  ELSE orDefaultFlavour(MetadataGet(w, owner, <<KeyFlavour>>))

scheduleDefaultResolve(w, owner) ==
  LET state == w.st[owner]
  IN IF state.resolveScheduled \/ state.resolved \/ state.applying THEN w
     ELSE [w EXCEPT !.st[owner].resolveScheduled = TRUE, !.mq = Append(@, owner)]

\* the rollback of an entry applied under another flavour: revert its metadata diff,
\* when it has one, and restore the member's descriptor
rollbackEntry(w, owner, i, e) ==
  LET reverted == revertMetadataDiff(w, owner, e.metadataDiff)
      effect == [before |-> w.meta[Symbol(owner)], after |-> reverted.meta[Symbol(owner)],
                 indexBefore |-> w.pidx[Symbol(owner)],
                 indexAfter |-> reverted.pidx[Symbol(owner)], diff |-> e.metadataDiff]
  IN restorePropertyDescriptor(
       Logged(IF e.metadataDiff # {}
                THEN Logged(reverted, [LogRec("revert", "", <<>>, owner, e.member, i)
                                         EXCEPT !.effect = effect])
              ELSE w,
              LogRec("restore", "", <<>>, owner, e.member, i)),
       e)

\* applyPendingEntry: the first application of an entry records the member's own
\* descriptor
snapshotDescriptor(w, owner, i, e) ==
  IF e.member # "" /\ ~IsSome(e.descriptorSnapshot)
    THEN [w EXCEPT
            !.st[owner].pending[i].descriptorWasOwn =
               Some(IsSome(OwnDescriptor(w, e.target, e.member))),
            !.st[owner].pending[i].descriptorSnapshot =
               OwnDescriptor(w, e.target, e.member)]
  ELSE w

\* applyPendingEntry: Object.defineProperty with the descriptor the decorator returned
installDescriptor(r, e) ==
  IF ~Failed(r.w) /\ e.member # "" /\ IsSome(r.descriptor)
    THEN defineProperty(r.w, e.target, e.member, r.descriptor[1])
  ELSE r.w

\* applyPendingEntry: the first application of an entry records the metadata diff
recordDiff(w, owner, i, e, beforeSnapshot) ==
  IF ~Failed(w) /\ ~e.hasDiff
    THEN [w EXCEPT
            !.st[owner].pending[i].hasDiff = TRUE,
            !.st[owner].pending[i].metadataDiff =
               diffMetadataBuckets(beforeSnapshot, w.meta[Symbol(owner)])]
  ELSE w

\* entry.lastAppliedPass = pass; entry.lastAppliedFlavour = flavour
markEntry(w, owner, i, pass, flavour) ==
  IF Failed(w) THEN w
  ELSE [w EXCEPT !.st[owner].pending[i].lastAppliedPass = pass,
                 !.st[owner].pending[i].lastAppliedFlavour = flavour]

RECURSIVE applyPendingEntry(_, _, _, _, _)
RECURSIVE applyImmediately(_, _, _, _)
RECURSIVE registerPendingDecorator(_, _, _, _, _, _, _, _)
RECURSIVE resolvePendingDecorators(_, _, _, _)
RECURSIVE FinalizeLoop(_, _, _, _, _, _)
RECURSIVE CursorLoop(_, _, _, _, _, _)
RECURSIVE wrapper(_, _, _, _, _, _)
RECURSIVE prop(_, _, _, _)

\* applyPendingEntry: prop()(entry.owner, entry.propertyKey) for a member without
\* descriptor
tagProperty(w, owner, e, d) ==
  IF ~Failed(w) /\ e.member # "" /\ ~IsSome(e.descriptor)
    THEN prop(w, owner, e.member, d + 1)
  ELSE w

\* Decoration.applyPendingEntry for entry i of owner's queue; d counts the wrapper
\* calls this one is nested in
applyPendingEntry(w, owner, i, flavour, d) ==
  IF Failed(w) THEN w
  ELSE
    LET e == w.st[owner].pending[i]
    IN Caught(
         recordDiff(
           tagProperty(
             installDescriptor(
               contextDecorator(
                 Logged(snapshotDescriptor(w, owner, i, e),
                        LogRec("apply", flavour, <<>>, owner, e.member, i)),
                 e.definitionKey, flavour, e.argsOverride, e.target, e.member,
                 e.descriptor),
               e),
             owner, e, d),
           owner, i, e, w.meta[Symbol(owner)]),
         "Error resolving pending decorator")

\* applyImmediately: entry.lastAppliedPass = state.passId;
\* entry.lastAppliedFlavour = flavourToUse
markApplied(w, owner, i, flavour) ==
  IF Failed(w) THEN w ELSE markEntry(w, owner, i, w.st[owner].passId, flavour)

\* an applyImmediately that invokes the entry with the default flavour
applyWithFlavour_defaultFlavour(sf, owner, i, d) ==
  [w |-> markApplied(applyPendingEntry(sf.w, owner, i, DefaultFlavour, d), owner, i,
                     DefaultFlavour),
   flavour |-> DefaultFlavour]

\* applyImmediately once flavourToUse is known (sf: the world and the flavour)
applyWithFlavour(sf, owner, i, d) ==
  [w |-> markApplied(applyPendingEntry(sf.w, owner, i, sf.flavour, d), owner, i,
                     sf.flavour),
   flavour |-> sf.flavour]

\* the applyImmediately closure of registerPendingDecorator, for the entry just pushed
applyImmediately(w, owner, i, d) ==
  applyWithFlavour(StoredFlavour(w, owner), owner, i, d)

\* registerPendingDecorator, directApply branch, after applyImmediately (a)
afterDirectApply(a, owner) ==
  IF Failed(a.w) THEN a.w
  ELSE MetadataSet(
         [a.w EXCEPT !.st[owner].appliedCount = Len(a.w.st[owner].pending),
                     !.st[owner].flavour = a.flavour],
         owner, <<KeyDecoration>>, Leaf("true"))

\* a registerPendingDecorator that never asks a custom resolver (no eager resolution)
registerPendingDecorator_noEager(w, owner, target, definitionKey, argsOverride, member, descriptor, d) ==
  IF Failed(w) THEN w
  ELSE
    LET state == w.st[owner]
        w1 == [w EXCEPT !.st[owner].pending =
                 Append(@, NewEntry(target, member, descriptor, argsOverride,
                                    definitionKey))]
    IN IF state.directApply
         THEN afterDirectApply(applyImmediately(w1, owner, Len(state.pending) + 1, d),
                               owner)
       ELSE IF state.applying
         THEN applyImmediately(w1, owner, Len(state.pending) + 1, d).w
       ELSE scheduleDefaultResolve(w1, owner)

\* Decoration.registerPendingDecorator
registerPendingDecorator(w, owner, target, definitionKey, argsOverride, member, descriptor, d) ==
  IF Failed(w) THEN w
  ELSE
    LET state == w.st[owner]
        w1 == [w EXCEPT !.st[owner].pending =
                 Append(@, NewEntry(target, member, descriptor, argsOverride,
                                    definitionKey))]
    IN IF state.directApply
         THEN afterDirectApply(applyImmediately(w1, owner, Len(state.pending) + 1, d),
                               owner)
       ELSE IF state.applying
         THEN applyImmediately(w1, owner, Len(state.pending) + 1, d).w
       ELSE LET eagerFlavour == ResolveFlavour(w1, owner)
            IN IF w1.resolver # "builtin" /\ eagerFlavour # DefaultFlavour
                 THEN resolvePendingDecorators(w1, owner, eagerFlavour, d)
               ELSE scheduleDefaultResolve(w1, owner)

\* a finalizing loop that walks the queue from its end
RECURSIVE FinalizeLoop_fromEnd(_, _, _, _, _, _)
FinalizeLoop_fromEnd(w, owner, i, resolvedFlavour, currentPass, d) ==
  IF Failed(w) \/ i > Len(w.st[owner].pending) THEN w
  ELSE
    LET j == Len(w.st[owner].pending) + 1 - i
        e == w.st[owner].pending[j]
        hasBeenApplied == e.hasDiff \/ IsSome(e.descriptorSnapshot)
    IN FinalizeLoop_fromEnd(
         IF e.lastAppliedPass = currentPass THEN w
         ELSE IF hasBeenApplied /\ (e.lastAppliedFlavour = resolvedFlavour
                                    \/ ~shouldOverrideEntry(w, e, resolvedFlavour))
           THEN [w EXCEPT !.st[owner].pending[j].lastAppliedPass = currentPass]
         ELSE markEntry(
                applyPendingEntry(IF hasBeenApplied THEN rollbackEntry(w, owner, j, e)
                                  ELSE w,
                                  owner, j, resolvedFlavour, d),
                owner, j, currentPass, resolvedFlavour),
         owner, i + 1, resolvedFlavour, currentPass, d)

\* the shouldFinalize branch: for (const entry of state.pending)
FinalizeLoop(w, owner, i, resolvedFlavour, currentPass, d) ==
  IF Failed(w) \/ i > Len(w.st[owner].pending) THEN w
  ELSE
    LET e == w.st[owner].pending[i]
        hasBeenApplied == e.hasDiff \/ IsSome(e.descriptorSnapshot)
    IN FinalizeLoop(
         IF e.lastAppliedPass = currentPass THEN w
         ELSE IF hasBeenApplied /\ (e.lastAppliedFlavour = resolvedFlavour
                                    \/ ~shouldOverrideEntry(w, e, resolvedFlavour))
           THEN [w EXCEPT !.st[owner].pending[i].lastAppliedPass = currentPass]
         ELSE markEntry(
                applyPendingEntry(IF hasBeenApplied THEN rollbackEntry(w, owner, i, e)
                                  ELSE w,
                                  owner, i, resolvedFlavour, d),
                owner, i, currentPass, resolvedFlavour),
         owner, i + 1, resolvedFlavour, currentPass, d)

\* the other branch: while (index < state.pending.length), index starting at the cursor
CursorLoop(w, owner, i, resolvedFlavour, currentPass, d) ==
  IF Failed(w) THEN w
  ELSE IF i > Len(w.st[owner].pending)
    THEN [w EXCEPT !.st[owner].appliedCount = Len(w.st[owner].pending)]
  ELSE CursorLoop(
         IF w.st[owner].pending[i].lastAppliedPass = currentPass THEN w
         ELSE markEntry(applyPendingEntry(w, owner, i, resolvedFlavour, d),
                        owner, i, currentPass, resolvedFlavour),
         owner, i + 1, resolvedFlavour, currentPass, d)

\* resolvePendingDecorators after the passes: the owner's state is settled
finishResolve(w, owner, resolvedFlavour, shouldFinalize) ==
  IF Failed(w) THEN w
  ELSE MetadataSet(
         [w EXCEPT
            !.log = Append(@, LogRec("done", resolvedFlavour, <<>>, owner, "", 0)),
            !.st[owner].applying = FALSE,
            !.st[owner].flavour = resolvedFlavour,
            !.st[owner].resolved = TRUE,
            !.st[owner].lastAppliedFlavour = resolvedFlavour,
            !.st[owner].appliedCount =
               IF shouldFinalize THEN Len(w.st[owner].pending) ELSE @,
            !.st[owner].directApply =
               IF shouldFinalize /\ resolvedFlavour # DefaultFlavour THEN TRUE ELSE @],
         owner, <<KeyDecoration>>, Leaf("true"))

\* a resolvePendingDecorators that starts a pass while another one is running
resolveWithFlavour_reentrant(sf, owner, flavour, d) ==
  LET state == sf.w.st[owner]
      shouldFinalize == (flavour # "" /\ flavour # DefaultFlavour) \/ state.directApply
      currentPass == state.passId + 1
      w1 == [sf.w EXCEPT
               !.log = Append(@, LogRec("pass", sf.flavour, <<>>, owner, "", currentPass)),
               !.st[owner].passId = currentPass, !.st[owner].applying = TRUE]
  IN IF flavour = "" /\ state.lastAppliedFlavour = sf.flavour
        /\ state.appliedCount >= Len(state.pending) THEN sf.w
     ELSE IF Len(state.pending) = 0 THEN sf.w
     ELSE finishResolve(
            IF shouldFinalize
              THEN FinalizeLoop(w1, owner, 1, sf.flavour, currentPass, d)
            ELSE CursorLoop(w1, owner, state.appliedCount + 1, sf.flavour, currentPass, d),
            owner, sf.flavour, shouldFinalize)

\* resolvePendingDecorators once resolvedFlavour is known (sf: the world and the flavour)
resolveWithFlavour(sf, owner, flavour, d) ==
  LET state == sf.w.st[owner]
      shouldFinalize == (flavour # "" /\ flavour # DefaultFlavour) \/ state.directApply
      currentPass == state.passId + 1
      w1 == [sf.w EXCEPT
               !.log = Append(@, LogRec("pass", sf.flavour, <<>>, owner, "", currentPass)),
               !.st[owner].passId = currentPass, !.st[owner].applying = TRUE]
  IN IF state.applying THEN sf.w
     ELSE IF flavour = "" /\ state.lastAppliedFlavour = sf.flavour
             /\ state.appliedCount >= Len(state.pending) THEN sf.w
     ELSE IF Len(state.pending) = 0 THEN sf.w
     ELSE finishResolve(
            IF shouldFinalize
              THEN FinalizeLoop(w1, owner, 1, sf.flavour, currentPass, d)
            ELSE CursorLoop(w1, owner, state.appliedCount + 1, sf.flavour, currentPass, d),
            owner, sf.flavour, shouldFinalize)

\* Decoration.resolvePendingDecorators(target, flavour); flavour = "" when omitted
resolvePendingDecorators(w, target, flavour, d) ==
  IF Failed(w) THEN w
  ELSE
    LET owner == OwnerOf(target)
        w0 == [w EXCEPT !.st[owner].resolveScheduled = FALSE]
    IN IF Len(w0.st[owner].pending) = 0 /\ flavour = "" THEN w0
       ELSE resolveWithFlavour(IF flavour # "" THEN [w |-> w0, flavour |-> flavour]
                               ELSE StoredFlavour(w0, owner),
                               owner, flavour, d)

\* decorators.ts uses(flavour)(object)
uses(w, flavour, object, d) ==
  LET w1 == MetadataSet(w, object, <<KeyFlavour>>, Leaf(flavour))
  IN IF flavour # DefaultFlavour THEN resolvePendingDecorators(w1, object, flavour, d)
     ELSE MetadataSet(w1, object, <<KeyDecoration>>, Leaf(StatePending))

\* the wrapper's auto tagging: method()(owner, member, descriptor) for a member with a
\* descriptor, prop()(owner, member) for one without
tagMember(w, owner, member, descriptor, d) ==
  IF Failed(w) THEN w
  ELSE IF IsSome(descriptor) THEN method(w, owner, member)
  ELSE prop(w, owner, member, d + 1)

\* a wrapper whose member-level path leaves the queue to a later resolution: it has no
\* Decoration.resolvePendingDecorators(owner) call of its own
wrapper_deferred(w, wr, target, member, descriptor, d) ==
  IF member # ""
    THEN
      LET owner == OwnerOf(target)
      IN [w |-> tagMember(
                  registerPendingDecorator(
                    IF IsUndef(innerGet(w, Symbol(owner), <<KeyFlavour>>))
                      THEN uses(w, DefaultFlavour, owner, d) ELSE w,
                    owner, target, wr.key, snapshotDecoratorArgs(wr), member,
                    descriptor, d),
                  owner, member, descriptor, d),
          descriptor |-> descriptor, target |-> target]
  ELSE contextDecorator(w, wr.key,
                        IF wr.flavour = DefaultFlavour THEN "" ELSE wr.flavour,
                        None, target, "", None)

\* the function Decoration.prototype.apply returns, called as wr(target, member, descriptor);
\* result: the world afterwards and the value returned
wrapper(w, wr, target, member, descriptor, d) ==
  IF member # ""
    THEN
      LET owner == OwnerOf(target)
      IN [w |-> tagMember(
                  resolvePendingDecorators(
                    registerPendingDecorator(
                      IF IsUndef(innerGet(w, Symbol(owner), <<KeyFlavour>>))
                        THEN uses(w, DefaultFlavour, owner, d) ELSE w,
                      owner, target, wr.key, snapshotDecoratorArgs(wr), member,
                      descriptor, d),
                    owner, "", d),
                  owner, member, descriptor, d),
          descriptor |-> descriptor, target |-> target]
  ELSE contextDecorator(w, wr.key,
                        IF wr.flavour = DefaultFlavour THEN "" ELSE wr.flavour,
                        None, target, "", None)

\* decorators.ts prop()(model, member): builds and registers a decoration for the
\* properties key, then calls the wrapper it obtains
PropBuilder ==
  define(BuilderFor(NewBuilder(DefaultFlavour), KeyProperties),
         <<ObjEntry("innerProp", <<>>)>>).b
prop(w, model, member, d) ==
  IF Failed(w) THEN w
  ELSE IF d > MaxNest THEN Hang(w)
  ELSE wrapper(applyRegister(w, PropBuilder), WrapperOf(PropBuilder), model, member, None, d).w

\* ------------------------------------------------------- operations (actions)
Members == {"m1", "m2", "f"}
Methods == {"m1", "m2"}
\* a method is an own property of the prototype, a field is not
OriginalDescriptor(member) == IF member \in Methods THEN Some(<<>>) ELSE None

LastRec(op, key, target, member, flavour) ==
  [op |-> op, key |-> key, target |-> target, member |-> member, flavour |-> flavour,
   note |-> "", value |-> UndefV, exc |-> "", ret |-> "", names |-> {}, aliases |-> {}]

\* the state an operation leaves behind; an operation that never returns leaves nothing
\* behind that a later operation could observe
Commit(w, rec) ==
  IF w.hung
    THEN /\ hung' = TRUE
         /\ last' = [rec EXCEPT !.exc = "hung"]
         /\ UNCHANGED <<reg, resolver, meta, pidx, st, desc, mq, log, errs, mirror, reflect, operands>>
  ELSE /\ reg' = w.reg
       /\ resolver' = w.resolver
       /\ meta' = w.meta
       /\ pidx' = w.pidx
       /\ st' = w.st
       /\ desc' = w.desc
       /\ mq' = w.mq
       /\ log' = w.log
       /\ errs' = w.errs
       /\ hung' = FALSE
       /\ mirror' = w.mirror
       /\ reflect' = w.reflect
       /\ operands' = operands
       /\ last' = [rec EXCEPT !.exc = w.exc]

\* the store, the scheduler and the prototypes before any decorator has run
FreshWorld(registry) ==
  [reg |-> registry, resolver |-> "builtin",
   meta |-> [s \in Symbols |-> UndefV], pidx |-> [s \in Symbols |-> {}],
   st |-> [c \in Classes |-> FreshState],
   desc |-> [p \in Protos |-> [m \in Members |-> OriginalDescriptor(m)]],
   mq |-> <<>>, log |-> <<>>, errs |-> <<>>, hung |-> FALSE, exc |-> "",
   mirror |-> TRUE, reflect |-> [c \in Constructors |-> None]]

InitStore ==
  /\ resolver = FreshWorld(reg).resolver
  /\ meta = FreshWorld(reg).meta
  /\ pidx = FreshWorld(reg).pidx
  /\ st = FreshWorld(reg).st
  /\ desc = FreshWorld(reg).desc
  /\ mq = <<>>
  /\ log = <<>>
  /\ errs = <<>>
  /\ hung = FALSE
  /\ last = LastRec("init", NoKey, "", "", "")
  /\ nops = 0
  /\ mirror = TRUE
  /\ reflect = [c \in Constructors |-> None]
  /\ operands = <<>>

\* ---- registry specification: builders, registration, owner-level dispatch.
\* A builder is configured by one chain of calls that ends with apply(), which is how
\* every call site of the library uses it.
DefineInputs ==
  {<<FnEntry("B1")>>, <<FnEntry("B2")>>,
   <<ObjEntry("F", <<"A">>), FnEntry("B1")>>,
   <<ObjEntry("F", <<"A">>), ObjEntry("B2", <<"B">>)>>}
ExtendInputs ==
  {<<FnEntry("X")>>, <<FnEntry("Y")>>,
   <<ObjEntry("X", <<"A">>), ObjEntry("Y", <<"B">>)>>}
\* how many of the entries handed to define() or extend() are {decorator, args} objects
Parameterized(ds) == {i \in 1 .. Len(ds) : ds[i].kind = "obj"}
Shape(ds) ==
  IF \E i \in 1 .. Len(ds) : ds[i].kind = "bad" THEN "unrecognized"
  ELSE IF Parameterized(ds) = {} THEN "direct"
  ELSE IF Len(ds) = 1 THEN "one parameterized"
  ELSE IF Cardinality(Parameterized(ds)) = 1 THEN "one parameterized and direct"
  ELSE "several parameterized"
RegResolvers == {"builtin", "onlyU"}

InitReg ==
  /\ reg = EmptyRegistry
  /\ cur = None
  /\ wrappers = {}
  /\ nbuilt = 0
  /\ InitStore

\* Decoration.flavouredAs(f)  (new Decoration(f))
FlavouredAs(f) ==
  /\ ~hung /\ nbuilt < MaxBuilders
  /\ cur' = Some(NewBuilder(f))
  /\ nbuilt' = nbuilt + 1
  /\ UNCHANGED <<wrappers, nops>>
  /\ Commit(World, LastRec("flavouredAs", NoKey, "", "", f))

\* builder.for(key)
For(key) ==
  /\ ~hung /\ IsSome(cur) /\ cur[1].key = NoKey
  /\ cur' = Some(BuilderFor(cur[1], key))
  /\ UNCHANGED <<wrappers, nbuilt, nops>>
  /\ Commit(World, LastRec("for", key, "", "", cur[1].flavour))

\* builder.define(...ds)
Define(ds) ==
  /\ ~hung /\ IsSome(cur) /\ ~IsSome(cur[1].decorators)
  /\ LET r == define(cur[1], ds)
     IN /\ cur' = Some(r.b)
        /\ Commit(Throw(World, r.exc), [LastRec("define", cur[1].key, "", "", cur[1].flavour)
                  EXCEPT !.note = Shape(ds)])
  /\ UNCHANGED <<wrappers, nbuilt, nops>>

\* builder.extend(...ds)
Extend(ds) ==
  /\ ~hung /\ IsSome(cur) /\ (IsSome(cur[1].extras) => Len(cur[1].extras[1]) < MaxExtras)
  /\ LET r == extend(cur[1], ds)
     IN /\ cur' = Some(r.b)
        /\ Commit(Throw(World, r.exc), [LastRec("extend", cur[1].key, "", "", cur[1].flavour)
                  EXCEPT !.note = Shape(ds)])
  /\ UNCHANGED <<wrappers, nbuilt, nops>>

\* which of define() and extend() the builder has been through
BuilderContents(b) ==
  IF IsSome(b.decorators) THEN (IF IsSome(b.extras) THEN "both" ELSE "define")
  ELSE IF IsSome(b.extras) THEN "extend" ELSE "none"

\* builder.apply()
Apply ==
  /\ ~hung /\ IsSome(cur)
  /\ LET w == applyRegister(World, cur[1])
     IN /\ wrappers' = IF w.exc = "" THEN wrappers \cup {WrapperOf(cur[1])}
                       ELSE wrappers
        /\ cur' = IF w.exc = "" THEN None ELSE cur
        /\ Commit(w, [LastRec("apply", cur[1].key, "", "", cur[1].flavour)
                        EXCEPT !.note = BuilderContents(cur[1])])
  /\ UNCHANGED <<nbuilt, nops>>

\* Decoration.setResolver(r)
SetResolver(r) ==
  /\ ~hung /\ r # resolver
  /\ Commit([World EXCEPT !.resolver = r], LastRec("setResolver", NoKey, "", "", ""))
  /\ UNCHANGED <<cur, wrappers, nbuilt>>

\* the variant an owner-level call of wrapper wr dispatches with
DispatchFlavour(w, wr, target) ==
  IF wr.flavour = DefaultFlavour THEN ResolveFlavour(w, target) ELSE wr.flavour

\* the state a call leaves behind together with the class it returned
CommitReturned(r, rec) == Commit(r.w, [rec EXCEPT !.ret = IF Failed(r.w) THEN "" ELSE r.target])

\* wr(c): owner-level attachment (class decorator)
Dispatch(wr, c) ==
  /\ ~hung
  /\ CommitReturned(wrapper(World, wr, c, "", None, 0),
                    [LastRec("dispatch", wr.key, c, "", DispatchFlavour(World, wr, c))
                       EXCEPT !.note = wr.flavour])
  /\ UNCHANGED <<cur, wrappers, nbuilt>>

NextReg ==
  \/ \E f \in Flavours : FlavouredAs(f)
  \/ \E k \in Keys : For(k)
  \/ \E ds \in DefineInputs : Define(ds)
  \/ \E ds \in ExtendInputs : Extend(ds)
  \/ Apply
  \/ \E r \in RegResolvers : SetResolver(r) /\ UNCHANGED nops
  \/ \E wr \in wrappers, c \in Classes : Dispatch(wr, c) /\ UNCHANGED nops

SpecReg == InitReg /\ [][NextReg]_vars

\* ---- dispatch specification: builders handed entries of every shape, among them
\* values that are neither a function nor a {decorator, args} object (define(123)),
\* and owner-level dispatches of what they register
DispDefineInputs == {<<FnEntry("B1")>>, <<BadEntry>>, <<FnEntry("B1"), BadEntry>>}
DispExtendInputs == {<<FnEntry("X")>>, <<BadEntry>>}

NextDisp ==
  \/ \E f \in Flavours : FlavouredAs(f)
  \/ \E k \in Keys : For(k)
  \/ \E ds \in DispDefineInputs : Define(ds)
  \/ \E ds \in DispExtendInputs : Extend(ds)
  \/ Apply
  \/ \E wr \in wrappers, c \in Classes : Dispatch(wr, c) /\ UNCHANGED nops

SpecDisp == InitReg /\ [][NextDisp]_vars

\* ---- scheduler specification: member-level attachments, variant assignment,
\* deferred resolution and metadata reads over a registry configured beforehand

\* the builder after flavouredAs(f).for(key)[.define(...defs)][.extend(...exts)]
Chain(f, key, defs, exts) ==
  LET b0 == BuilderFor(NewBuilder(f), key)
      b1 == IF IsSome(defs) THEN define(b0, defs[1]).b ELSE b0
  IN IF IsSome(exts) THEN extend(b1, exts[1]).b ELSE b1

\* the registry and the wrappers after applying the builders of chains in order
RECURSIVE Configure(_, _)
Configure(chains, n) ==
  IF n = 0 THEN [w |-> [reg |-> EmptyRegistry, exc |-> ""], wrappers |-> {}]
  ELSE LET c == Configure(chains, n - 1)
       IN [w |-> applyRegister(c.w, chains[n]),
           wrappers |-> c.wrappers \cup {WrapperOf(chains[n])}]

Fn(n) == Some(<<FnEntry(n)>>)
SchedConfigs ==
  {<<Chain(DefaultFlavour, "k", Fn("Wd"), None), Chain("v", "k", Fn("Wv"), None)>>,
   <<Chain(DefaultFlavour, "k", Fn("Wp"), None), Chain("v", "k", Fn("Wv"), None)>>,
   <<Chain(DefaultFlavour, "k", Fn("Wrap"), None), Chain("v", "k", None, Fn("X"))>>,
   <<Chain(DefaultFlavour, "k", Fn("Wd"), None), Chain("v", "k", Fn("Wt"), None)>>,
   <<Chain(DefaultFlavour, "k", Fn("Wu"), None), Chain("v", "k", Fn("Wv"), None)>>,
   <<Chain(DefaultFlavour, "k", Fn("Wd"), None)>>}
\* the registrations of the composition specification: one key registered twice with
\* different arguments and once for a variant without arguments; one key whose base set
\* composes three behaviours that return a descriptor or a class
ComposeConfigs ==
  {<<Chain(DefaultFlavour, "k", Some(<<ObjEntry("F", <<"A">>)>>), None),
     Chain(DefaultFlavour, "k", Some(<<ObjEntry("F", <<"B">>)>>), None),
     Chain("v", "k", Some(<<ObjNoArgs("F")>>), None)>>,
   <<Chain(DefaultFlavour, "k",
           Some(<<FnEntry("Wrap"), FnEntry("Sub"), FnEntry("Wrap2")>>), None)>>}

\* the classes whose members are decorated; U only inherits from T
Owners == {"T"}

InitSched ==
  /\ \E chains \in SchedConfigs :
       /\ reg = Configure(chains, Len(chains)).w.reg
       /\ wrappers = Configure(chains, Len(chains)).wrappers
       /\ nbuilt = Len(chains)
  /\ cur = None
  /\ InitStore

\* one more operation of a run of at most MaxOps operations
Tick ==
  /\ nops < MaxOps
  /\ nops' = nops + 1

\* wr(ProtoOf[c], m, descriptor): member-level attachment (method or field decorator)
Attach(wr, c, m) ==
  /\ Tick
  /\ ~hung /\ Len(st[c].pending) < MaxPending
  /\ Commit(wrapper(World, wr, ProtoOf[c], m, OriginalDescriptor(m), 0).w,
            [LastRec("attach", wr.key, c, m, "") EXCEPT !.note = wr.flavour])
  /\ UNCHANGED <<cur, wrappers, nbuilt>>

\* uses(f)(c): owner-level variant assignment
Uses(f, c) ==
  /\ Tick
  /\ ~hung
  /\ Commit(uses(World, f, c, 0), LastRec("uses", NoKey, c, "", f))
  /\ UNCHANGED <<cur, wrappers, nbuilt>>

\* the promise callback queued by scheduleDefaultResolve
Microtask ==
  /\ Tick
  /\ ~hung /\ Len(mq) > 0
  /\ LET owner == Head(mq)
         w0 == [World EXCEPT !.mq = Tail(mq), !.st[owner].resolveScheduled = FALSE]
     IN Commit(IF ~w0.st[owner].resolved THEN resolvePendingDecorators(w0, owner, "", 0)
               ELSE w0,
               LastRec("microtask", NoKey, owner, "", ""))
  /\ UNCHANGED <<cur, wrappers, nbuilt>>

\* Metadata.get(c)
Get(c) ==
  /\ Tick
  /\ ~hung
  /\ LET g == MetadataGet(World, c, <<>>)
     IN Commit(g.w, [LastRec("get", NoKey, c, "", "")
                       EXCEPT !.value = g.value, !.aliases = g.aliases])
  /\ UNCHANGED <<cur, wrappers, nbuilt>>

NextSched ==
  \/ \E wr \in wrappers, c \in Owners, m \in Members : Attach(wr, c, m)
  \/ \E f \in Flavours, c \in Owners : Uses(f, c)
  \/ Microtask
  \/ \E c \in Classes : Get(c)
  \/ \E r \in SchedResolvers : Tick /\ SetResolver(r)
  \/ \E wr \in wrappers, c \in Owners : Tick /\ Dispatch(wr, c)

SpecSched == InitSched /\ [][NextSched]_vars

\* ---- composition specification: the scheduler's operations on the registrations of
\* ComposeConfigs
InitCompose ==
  /\ \E chains \in ComposeConfigs :
       /\ reg = Configure(chains, Len(chains)).w.reg
       /\ wrappers = Configure(chains, Len(chains)).wrappers
       /\ nbuilt = Len(chains)
  /\ cur = None
  /\ InitStore

SpecCompose == InitCompose /\ [][NextSched]_vars

\* ---- replay specification: one key registered for the default flavour and for two
\* other flavours, each with a behaviour that writes under a path of its own; members
\* of T are decorated and T is assigned one flavour after another
ReplayConfig ==
  <<Chain(DefaultFlavour, "k", Fn("Wd"), None), Chain("v", "k", Fn("Wv"), None),
    Chain(OtherFlavour, "k", Fn("Ww"), None)>>
InitReplay ==
  /\ reg = Configure(ReplayConfig, Len(ReplayConfig)).w.reg
  /\ wrappers = Configure(ReplayConfig, Len(ReplayConfig)).wrappers
  /\ nbuilt = Len(ReplayConfig)
  /\ cur = None
  /\ InitStore

NextReplay ==
  \/ \E wr \in wrappers, c \in Owners, m \in Members : Attach(wr, c, m)
  \/ \E f \in RegFlavours, c \in Owners : Uses(f, c)
  \/ Microtask
  \/ \E c \in Classes : Get(c)

SpecReplay == InitReplay /\ [][NextReplay]_vars

\* ---- metadata specification: the store on its own. Runs of at most MaxWrites
\* operations on the classes T and U (U extends T): writes, merged reads, the properties
\* listing, the mirror switch, variant assignment and library registration.
ObjXY == Graft(Graft(EmptyObj, <<"x">>, Leaf("3")), <<"y">>, Leaf("4"))
\* the (key, value) pairs handed to Metadata.set
SetInputs ==
  {<<<<"a">>, Leaf("1")>>, <<<<"a">>, Arr(<<"2">>)>>, <<<<"a">>, ObjXY>>,
   <<<<"a", "x">>, Leaf("1")>>,
   <<<<KeyProperties, "n">>, Leaf("1")>>, <<<<KeyProperties, "n", "s">>, Leaf("1")>>,
   <<<<KeyProperties>>, ObjXY>>,
   <<<<KeyMethods, "run", DesignParams>>, Arr(<<"Number">>)>>,
   <<<<KeyMethods, "run", DesignParams>>, Arr(<<"Number", "String">>)>>}
\* library names as their dot-separated segments: "lib" and "lib.js"
LibraryNames == {<<"lib">>, <<"lib", "js">>}
\* the constructors handed to Metadata.set and Metadata.get
MetaTargets == Classes \cup {Twin}
Versions == {"1.0.0", "1.0.1"}

InitMeta ==
  /\ reg = EmptyRegistry
  /\ cur = None
  /\ wrappers = {}
  /\ nbuilt = 0
  /\ resolver = FreshWorld(reg).resolver
  /\ meta = FreshWorld(reg).meta
  /\ pidx = FreshWorld(reg).pidx
  /\ st = FreshWorld(reg).st
  /\ desc = FreshWorld(reg).desc
  /\ mq = <<>>
  /\ log = <<>>
  /\ errs = <<>>
  /\ hung = FALSE
  /\ last = LastRec("init", NoKey, "", "", "")
  /\ nops = MaxOps - MaxWrites
  /\ mirror = TRUE
  /\ reflect = [c \in Constructors |-> None]
  /\ operands = <<>>

\* Metadata.set(c, key, value)
Set(c, kv) ==
  /\ Tick
  /\ ~hung
  /\ Commit(MetadataSet(World, c, kv[1], kv[2]),
            [LastRec("set", NoKey, c, "", "") EXCEPT !.value = kv[2], !.names = {kv[1]}])
  /\ UNCHANGED <<cur, wrappers, nbuilt>>

\* the caller of the last Metadata.get assigns a property of the object or array at
\* path p of the value it was handed (returned.p.touched = "1"): the assignment lands in
\* the store where the object assigned to is an object of the store
MutatedKey == "touched"
mutateReturned(w, aliases, p) ==
  LET hit == {al \in aliases : al.at = p}
  IN IF hit = {} THEN w
     ELSE LET al == CHOOSE x \in hit : TRUE
          IN [w EXCEPT !.meta[al.symbol] = Graft(@, Append(al.path, MutatedKey), Leaf("1"))]
Mutate(p) ==
  /\ Tick
  /\ ~hung
  /\ last.op = "get"
  /\ p \in DOMAIN last.value
  /\ last.value[p].k \in {"obj", "arr"}
  /\ Commit(mutateReturned(World, last.aliases, p),
            [LastRec("mutate", NoKey, last.target, "", "")
               EXCEPT !.value = Graft(last.value, Append(p, MutatedKey), Leaf("1")),
                      !.names = {p}])
  /\ UNCHANGED <<cur, wrappers, nbuilt>>

\* Metadata.mirror = b
SetMirror(b) ==
  /\ Tick
  /\ ~hung
  /\ Commit([World EXCEPT !.mirror = b],
            [LastRec("mirror", NoKey, "", "", "") EXCEPT !.note = IF b THEN "on" ELSE "off"])
  /\ UNCHANGED <<cur, wrappers, nbuilt>>

\* Metadata.properties(c)
Properties(c) ==
  /\ Tick
  /\ ~hung
  /\ LET r == properties(World, c)
     IN Commit(r.w, [LastRec("properties", NoKey, c, "", "")
                       EXCEPT !.names = r.names,
                              !.note = IF r.defined THEN "list" ELSE Undefined])
  /\ UNCHANGED <<cur, wrappers, nbuilt>>

\* Metadata.param(c, "run", index)
Param(c, index) ==
  /\ Tick
  /\ ~hung
  /\ LET r == param(World, c, "run", index)
     IN Commit(r.w, [LastRec("param", NoKey, c, "run", "")
                       EXCEPT !.value = r.value, !.names = {index}])
  /\ UNCHANGED <<cur, wrappers, nbuilt>>

\* assignFlavour(c, f, DefaultFlavour)
Assign(c, f) ==
  /\ Tick
  /\ ~hung
  /\ Commit(assignFlavour(World, c, f, DefaultFlavour), LastRec("assign", NoKey, c, "", f))
  /\ UNCHANGED <<cur, wrappers, nbuilt>>

\* Metadata.registerLibrary(library, version)
RegisterLibrary(library, version) ==
  /\ Tick
  /\ ~hung
  /\ Commit(registerLibrary(World, library, version),
            [LastRec("registerLibrary", NoKey, "", "", "")
               EXCEPT !.names = {library}, !.note = version])
  /\ UNCHANGED <<cur, wrappers, nbuilt>>

\* the places of a returned value where the modelled writes can have put an object
MutablePaths == {<<>>, <<"a">>, <<KeyProperties>>, <<KeyMethods, "run", DesignParams>>}
NextMeta ==
  \/ \E c \in MetaTargets, kv \in SetInputs : Set(c, kv)
  \/ \E c \in MetaTargets : Get(c)
  \/ \E p \in MutablePaths : Mutate(p)
  \/ \E c \in Classes : Properties(c)
  \/ \E c \in Classes, index \in 0 .. MaxIndex : Param(c, index)
  \/ \E b \in BOOLEAN : SetMirror(b)
  \/ \E c \in Classes, f \in Flavours : Assign(c, f)
  \/ \E f \in Flavours, c \in Classes : Uses(f, c)
  \/ \E library \in LibraryNames, version \in Versions : RegisterLibrary(library, version)

SpecMeta == InitMeta /\ [][NextMeta]_vars

\* ---- merge specification: Metadata.mergeMetadataChain as a function of the values one
\* path holds on the MaxLevels levels of an inheritance chain, most-base first
MergeValues ==
  {Leaf("1"), Arr(<<"2">>), Graft(EmptyObj, <<"x">>, Leaf("1")),
   Graft(EmptyObj, <<"y">>, Leaf("2")), ObjXY,
   Graft(EmptyObj, <<"x">>, Graft(EmptyObj, <<"y">>, Leaf("2")))}

InitMerge ==
  /\ reg = EmptyRegistry
  /\ cur = None
  /\ wrappers = {}
  /\ nbuilt = 0
  /\ resolver = FreshWorld(reg).resolver
  /\ meta = FreshWorld(reg).meta
  /\ pidx = FreshWorld(reg).pidx
  /\ st = FreshWorld(reg).st
  /\ desc = FreshWorld(reg).desc
  /\ mq = <<>>
  /\ log = <<>>
  /\ errs = <<>>
  /\ hung = FALSE
  /\ last = LastRec("init", NoKey, "", "", "")
  /\ nops = 0
  /\ mirror = TRUE
  /\ reflect = [c \in Constructors |-> None]
  /\ operands \in [1 .. MaxLevels -> MergeValues]

\* the values of levels from .. to merged by one call
MergedRange(values, from, to) ==
  mergeMetadataChain([i \in 1 .. (to - from + 1) |-> values[from + i - 1]], to - from + 1)

\* mergeMetadataChain([Base, Mid, ..., Derived])
MergeChain ==
  /\ last.op = "init"
  /\ last' = [LastRec("merge", NoKey, "", "", "")
                EXCEPT !.value = mergeMetadataChain(operands, Len(operands))]
  /\ UNCHANGED <<reg, cur, wrappers, nbuilt, resolver, meta, pidx, st, desc, mq, log, errs,
                 hung, nops, mirror, reflect, operands>>

\* mergeMetadataChain([Base, mergeMetadataChain([Mid, ..., Derived])])
MergeRegrouped ==
  /\ last.op = "init"
  /\ last' = [LastRec("regrouped", NoKey, "", "", "")
                EXCEPT !.value = mergeMetadataChain(
                                   <<operands[1], MergedRange(operands, 2, Len(operands))>>, 2)]
  /\ UNCHANGED <<reg, cur, wrappers, nbuilt, resolver, meta, pidx, st, desc, mq, log, errs,
                 hung, nops, mirror, reflect, operands>>

NextMerge ==
  \/ MergeChain
  \/ MergeRegrouped

SpecMerge == InitMerge /\ [][NextMerge]_vars

\* ------------------------------------------------------------------ properties
Names(ds) == [i \in 1 .. Len(ds) |-> ds[i].name]
CallNames(lg) == Names(SelectSeq(lg, LAMBDA r : r.op = "call"))
ExtrasOf(bucket) == IF IsSome(bucket.extras) THEN bucket.extras[1] ELSE <<>>
Contains(seq, x) == \E i \in 1 .. Len(seq) : seq[i] = x
IsApplied(l, note) == l.op = "apply" /\ l.exc = "" /\ l.note = note
IsDispatch(l) == l.op = "dispatch"

C5_ExtensionOnlyGrows ==
  [][\A k \in RegKeys, f \in Flavours :
       \A i \in 1 .. Len(ExtrasOf(reg[k][f])) :
          Contains(ExtrasOf(reg'[k][f]), ExtrasOf(reg[k][f])[i])]_vars

\* the base set the composition rule names for (key, variant)
ExpectedBase(k, f) ==
  IF Len(reg[k][f].decorators) > 0 THEN reg[k][f].decorators
  ELSE reg[k][DefaultFlavour].decorators

\* C6: every dispatch resolved to variant v completes and has invoked exactly
\* base ++ extension, in order and once each, base being v's base set when it is not
\* empty and the default variant's otherwise.
C6_DispatchRunsBaseThenExtension ==
  IsDispatch(last) =>
    /\ last.exc = ""
    /\ CallNames(log) = Names(ExpectedBase(last.key, last.flavour)
                              \o ExtrasOf(reg[last.key][last.flavour]))

\* C7: with a base registered for the default variant only and an extension registered
\* for v only, under a resolver that maps U to v and every other class to the default, a
\* dispatch of an unbound decorator runs base ++ extension on U and the base alone on
\* any other class.
C7_ExtensionOnlyForItsVariant ==
  (/\ IsDispatch(last) /\ last.note = DefaultFlavour /\ resolver = "onlyU"
   /\ reg[last.key][DefaultFlavour].present
   /\ Len(reg[last.key][DefaultFlavour].decorators) > 0
   /\ ExtrasOf(reg[last.key][DefaultFlavour]) = <<>>
   /\ reg[last.key]["v"].present
   /\ reg[last.key]["v"].decorators = <<>>)
  => /\ last.exc = ""
     /\ CallNames(log) =
          Names(reg[last.key][DefaultFlavour].decorators
                \o (IF last.target = "U" THEN ExtrasOf(reg[last.key]["v"]) ELSE <<>>))

\* C7 witness: such a dispatch on a class other than U, the extension being registered
C7_Witness ==
  /\ IsDispatch(last) /\ last.note = DefaultFlavour /\ resolver = "onlyU"
  /\ last.target = "T" /\ last.exc = ""
  /\ Len(reg[last.key][DefaultFlavour].decorators) > 0
  /\ ExtrasOf(reg[last.key][DefaultFlavour]) = <<>>
  /\ reg[last.key]["v"].decorators = <<>>
  /\ Len(ExtrasOf(reg[last.key]["v"])) > 0
  /\ CallNames(log) = Names(reg[last.key][DefaultFlavour].decorators)

\* C8: a dispatch resolved to a non-default variant invokes, after the base entries,
\* the extension entries of the default variant and those of the resolved variant.
C8_DefaultAndVariantExtrasAppended ==
  (IsDispatch(last) /\ last.exc = "" /\ last.flavour # DefaultFlavour) =>
    \A f \in {DefaultFlavour, last.flavour} :
      \A i \in 1 .. Len(ExtrasOf(reg[last.key][f])) :
        \E j \in (Len(ExpectedBase(last.key, last.flavour)) + 1) .. Len(CallNames(log)) :
          CallNames(log)[j] = ExtrasOf(reg[last.key][f])[i].name

\* ---- scheduler properties
Applied(e) == e.hasDiff \/ IsSome(e.descriptorSnapshot)
HasVariantEntries(k, f) ==
  reg[k][f].present /\ (Len(reg[k][f].decorators) > 0 \/ Len(ExtrasOf(reg[k][f])) > 0)
\* positions of the scheduler steps op recorded for entry i
Steps(lg, op, i) == {n \in 1 .. Len(lg) : lg[n].op = op /\ lg[n].idx = i}
Bucket(c) == meta[Symbol(c)]

\* the wrapper a queued entry was attached through
WrapperFor(e) ==
  CHOOSE wr \in wrappers : wr.key = e.definitionKey /\ snapshotDecoratorArgs(wr) = e.argsOverride

\* the world after attaching entries[i .. ] again, in order, to class c
RECURSIVE ReplayAttach(_, _, _, _)
ReplayAttach(w, entries, i, c) ==
  IF i > Len(entries) THEN w
  ELSE ReplayAttach(
         wrapper(w, WrapperFor(entries[i]), ProtoOf[c], entries[i].member,
                 OriginalDescriptor(entries[i].member), 0).w,
         entries, i + 1, c)

\* class c's bucket when, starting afresh, c is assigned v first and the members now in
\* its queue are attached afterwards
OwnerFirstBucket(c) ==
  ReplayAttach(uses(FreshWorld(reg), "v", c, 0), st[c].pending, 1, c).meta[Symbol(c)]

\* C1: when the operations of a run so far are member-level attachments to T only and T
\* is then assigned v, T's bucket ends up as it does when T is assigned v first and the
\* same members are attached afterwards.
C1_OrderIndependentBucket ==
  [][(/\ nops = Len(st["T"].pending) /\ nops > 0 /\ ~hung
      /\ last'.op = "uses" /\ last'.target = "T" /\ last'.flavour = "v" /\ ~hung')
     => Bucket("T")' = OwnerFirstBucket("T")]_vars

\* C2: a member-level attachment on field f of a fresh owner returns, the entry having
\* been applied with the default variant; and when an owner whose queue holds such an
\* entry is then assigned v, with v registered for the entry's key, nothing remains in
\* the owner's bucket of what only the default run wrote for f.
C2_NoResidueForField ==
  /\ (last.op = "attach" /\ last.member = "f" /\ nops = 1) =>
        /\ ~hung
        /\ Len(st[last.target].pending) = 1
        /\ st[last.target].pending[1].lastAppliedFlavour = DefaultFlavour
  /\ (last.op = "uses" /\ last.flavour = "v" /\ ~hung) =>
        \A i \in 1 .. Len(st[last.target].pending) :
          LET e == st[last.target].pending[i]
          IN (e.member = "f" /\ HasVariantEntries(e.definitionKey, "v")) =>
               /\ e.lastAppliedFlavour = "v"
               /\ ~Has(Bucket(last.target), <<"d">>)
               /\ ~Has(Bucket(last.target), <<KeyProperties, "f">>)

\* the scheduler steps of a replay of entry i, in order: revert (when the entry recorded
\* a non-empty diff), restore, apply with variant f
Replayed(lg, i, e, f) ==
  \E r \in Steps(lg, "restore", i), a \in Steps(lg, "apply", i) :
     /\ r < a /\ lg[a].name = f
     /\ (e.metadataDiff # {} => \E v \in Steps(lg, "revert", i) : v < r)

\* C3 (as the code has it): when uses(v) assigns a non-default variant v to an owner,
\* every queued entry already applied with another variant whose key has a non-empty
\* base or extension set registered for v is reverted, restored and invoked again with v
\* and has v as its last-applied variant afterwards; every other such entry is not
\* invoked again and keeps its last-applied variant.
C3_ReplayWhereVariantRegistered ==
  [][(last'.op = "uses" /\ last'.flavour # DefaultFlavour /\ ~hung /\ ~hung') =>
       \A i \in 1 .. Len(st[last'.target].pending) :
         LET e == st[last'.target].pending[i]
             e2 == st'[last'.target].pending[i]
         IN (Applied(e) /\ e.lastAppliedFlavour # last'.flavour) =>
              IF HasVariantEntries(e.definitionKey, last'.flavour)
                THEN Replayed(log', i, e, last'.flavour)
                     /\ e2.lastAppliedFlavour = last'.flavour
              ELSE Steps(log', "apply", i) = {}
                   /\ e2.lastAppliedFlavour = e.lastAppliedFlavour]_vars

\* C3 witness: uses(v) has just replayed a queued entry that had been applied with the
\* default variant
C3_Witness ==
  /\ last.op = "uses" /\ last.flavour = "v" /\ ~hung
  /\ Len(st[last.target].pending) > 0
  /\ st[last.target].pending[1].lastAppliedFlavour = "v"
  /\ Steps(log, "revert", 1) # {} /\ Steps(log, "restore", 1) # {}
  /\ Steps(log, "apply", 1) # {}

\* C3 as claimed: after uses(v) every entry in the owner's queue has v as its
\* last-applied variant.
C3_EveryEntryEndsWithVariant ==
  (last.op = "uses" /\ last.flavour = "v" /\ ~hung) =>
    \A i \in 1 .. Len(st[last.target].pending) :
      st[last.target].pending[i].lastAppliedFlavour = "v"

\* what a custom resolver returns for class c
CustomResolvers == {"toDecaf", "toV"}
Answer(r, c) == IF r = "toV" THEN "v" ELSE DefaultFlavour
\* the behaviours a dispatch of key k resolved to f is to invoke
ExpectedCalls(k, f) ==
  Names(ExpectedBase(k, f)
        \o ExtrasOf(reg[k][IF reg[k][f].present THEN f ELSE DefaultFlavour]))
\* the variant recorded in class c's stored metadata, DefaultFlavour when there is none
RecordedFlavour(c) ==
  IF Has(Bucket(c), <<KeyFlavour>>) THEN Bucket(c)[<<KeyFlavour>>].v ELSE DefaultFlavour
LastEntry(state) == state.pending[Len(state.pending)]

\* the decorators a dispatch invoked itself, in order: the invocations recorded outside
\* every pass over a queue (a pass is what an invoked decorator that assigns a variant
\* starts)
InPass(lg, n) ==
  \E p \in 1 .. n - 1 : lg[p].op = "pass" /\ \A x \in p + 1 .. n - 1 : lg[x].op # "done"
DirectCallNames(lg) ==
  LET direct == SelectSeq([n \in 1 .. Len(lg) |-> n],
                          LAMBDA n : lg[n].op = "call" /\ ~InPass(lg, n))
  IN [j \in 1 .. Len(direct) |-> lg[direct[j]].name]

\* C9 (as the code has it): while a custom resolver r is installed, every owner-level
\* dispatch of a decorator not bound to a variant invokes what the composition rule
\* gives for r's answer (and nothing else, outside the replays that an invoked
\* decorator starts); a member-level attachment is applied with r's answer when the
\* owner is not finalized and r's answer is a non-default variant, and otherwise with
\* the variant already recorded for the owner (scheduler state, else stored flavour,
\* else the default), so that a finalized owner keeps its variant.
C9_ResolverUsedUnlessOwnerFinalized ==
  [][/\ (/\ last'.op = "dispatch" /\ last'.note = DefaultFlavour /\ last'.exc = ""
         /\ resolver \in CustomResolvers /\ resolver' = resolver)
        => DirectCallNames(log') = ExpectedCalls(last'.key, Answer(resolver, last'.target))
     /\ (/\ last'.op = "attach" /\ ~hung /\ ~hung'
         /\ resolver \in CustomResolvers /\ resolver' = resolver)
        => LET c == last'.target
               a == Answer(resolver, c)
           IN LastEntry(st'[c]).lastAppliedFlavour =
                IF st[c].directApply THEN st[c].flavour
                ELSE IF a # DefaultFlavour THEN a
                ELSE IF st[c].flavour # "" THEN st[c].flavour
                ELSE RecordedFlavour(c)]_vars

\* C9 witness: with the resolver that answers v installed after the owner's first
\* member was applied with the default variant, a second member has been attached and
\* applied with v, and the first one replayed
C9_Witness ==
  /\ last.op = "attach" /\ ~hung /\ resolver = "toV"
  /\ Len(st[last.target].pending) = 2
  /\ Steps(log, "revert", 1) # {}
  /\ st[last.target].pending[1].lastAppliedFlavour = "v"
  /\ st[last.target].pending[2].lastAppliedFlavour = "v"

\* C9 as claimed: while a custom resolver r is installed, every member-level attachment
\* to an owner that was never explicitly assigned a non-default variant is applied with
\* r's answer for the owner.
C9_EveryAttachmentUsesResolver ==
  (/\ last.op = "attach" /\ ~hung /\ resolver \in CustomResolvers
   /\ RecordedFlavour(last.target) = DefaultFlavour) =>
    LastEntry(st[last.target]).lastAppliedFlavour = Answer(resolver, last.target)

\* C10: after a metadata read of class c no class of c's chain is marked PENDING, and
\* every entry queued for a class of the chain has been applied.
C10_ReadResolvesPendingChain ==
  last.op = "get" =>
    LET chain == collectConstructorChain(last.target)
    IN \A i \in 1 .. Len(chain) :
         /\ innerGet(World, Symbol(chain[i]), <<KeyDecoration>>) # Leaf(StatePending)
         /\ chain[i] \in Classes =>
              \A j \in 1 .. Len(st[chain[i]].pending) : Applied(st[chain[i]].pending[j])

\* the invocations recorded in lg that threw
ThrowingCalls(lg) ==
  {n \in 1 .. Len(lg) : lg[n].op = "call" /\ Throws(lg[n].name, lg[n].member)}
\* the entries a finalizing pass with variant f is to invoke: those never applied and
\* those applied with another variant whose key has entries registered for f
Due(e, f) ==
  ~Applied(e) \/ (e.lastAppliedFlavour # f /\ HasVariantEntries(e.definitionKey, f))

\* C11: an operation that runs queued entries (a member-level attachment, a variant
\* assignment, the scheduled resolve) returns normally even when an entry's invocation
\* throws, every throw being reported once; and a uses(v) pass invokes every entry
\* that is due, whether or not another entry threw.
C11_ThrowingEntryIsIsolated ==
  [][(last'.op \in {"attach", "uses", "microtask"} /\ ~hung /\ ~hung') =>
       /\ last'.exc = ""
       /\ Len(errs') = Cardinality(ThrowingCalls(log'))
       /\ (last'.op = "uses" /\ last'.flavour # DefaultFlavour) =>
            \A i \in 1 .. Len(st[last'.target].pending) :
               Due(st[last'.target].pending[i], last'.flavour)
                 => Steps(log', "apply", i) # {}]_vars

\* C11 witness: in a uses(v) pass over two entries the invocation of the first threw and
\* was reported, and the second was invoked after it
C11_Witness ==
  /\ last.op = "uses" /\ last.flavour = "v" /\ ~hung /\ last.exc = ""
  /\ Len(st[last.target].pending) = 2
  /\ Len(errs) = 1
  /\ \E t \in ThrowingCalls(log), a \in Steps(log, "apply", 2) :
        t < a /\ log[t].member = st[last.target].pending[1].member
  /\ st[last.target].pending[2].lastAppliedFlavour = "v"

C13_FinalizedNeverBackToDefault ==
  [][/\ (last'.op = "uses" /\ last'.flavour # DefaultFlavour /\ ~hung /\ ~hung') =>
          \A i \in 1 .. Len(st[last'.target].pending) :
            LET e == st[last'.target].pending[i]
            IN (Applied(e) /\ e.lastAppliedFlavour = DefaultFlavour
                /\ HasVariantEntries(e.definitionKey, last'.flavour))
                 => st'[last'.target].pending[i].lastAppliedFlavour = last'.flavour
     /\ \A c \in Classes :
          (st[c].directApply /\ ~hung /\ ~hung') =>
            /\ \A a \in 1 .. Len(log') :
                 (log'[a].op = "apply" /\ log'[a].target = c)
                   => log'[a].name # DefaultFlavour
            /\ \A i \in 1 .. Len(st[c].pending) :
                 st[c].pending[i].lastAppliedFlavour # DefaultFlavour
                   => st'[c].pending[i].lastAppliedFlavour # DefaultFlavour]_vars

\* C13 witness: the owner was finalized with v, its entry being applied with v, and has
\* then been assigned the default variant explicitly
C13_Witness ==
  /\ last.op = "uses" /\ last.flavour = DefaultFlavour /\ ~hung
  /\ st[last.target].directApply
  /\ Len(st[last.target].pending) > 0
  /\ st[last.target].pending[1].lastAppliedFlavour = "v"
  /\ RecordedFlavour(last.target) = DefaultFlavour

\* the scheduler steps (revert, restore, apply) recorded in lg for owner c
SchedulerSteps(lg, c) ==
  {n \in 1 .. Len(lg) : lg[n].op \in {"revert", "restore", "apply"} /\ lg[n].target = c}

\* C14: in every operation the entries of an owner's queue are handled in the order of
\* their registration: an entry is invoked after every entry registered before it that
\* is invoked too, and the revert, restore and apply steps of one entry's replay come
\* before any step of a later entry.
C14_EntriesInRegistrationOrder ==
  [][~hung' =>
       \A c \in Classes :
         \A a, b \in SchedulerSteps(log', c) :
           a < b => /\ log'[a].idx <= log'[b].idx
                    /\ (log'[a].op = "apply" /\ log'[b].op = "apply")
                         => log'[a].idx < log'[b].idx]_vars

\* C14 witness: a uses(v) pass has reverted and replayed two entries
C14_Witness ==
  /\ last.op = "uses" /\ last.flavour = "v" /\ ~hung
  /\ Steps(log, "revert", 1) # {} /\ Steps(log, "apply", 1) # {}
  /\ Steps(log, "revert", 2) # {} /\ Steps(log, "apply", 2) # {}
  /\ st[last.target].pending[1].member # st[last.target].pending[2].member

\* the positions in lg at which a pass over owner c's queue starts, and ends
PassStarts(lg, c) == {n \in 1 .. Len(lg) : lg[n].op = "pass" /\ lg[n].target = c}
PassEnds(lg, c) == {n \in 1 .. Len(lg) : lg[n].op = "done" /\ lg[n].target = c}
Between(S, a, b) == \E x \in S : a < x /\ x < b
\* the invocations of Wu, each of which requests a resolution of its owner
Requests(lg) == {n \in 1 .. Len(lg) : lg[n].op = "call" /\ lg[n].name = "Wu"}

\* C15: no pass over an owner's queue starts while another pass over it is running (a
\* resolution requested from inside an entry's invocation starts none: the pass counter
\* advances by the number of passes that ran one after the other), and an entry is
\* invoked at most once between the start and the end of a pass.
C15_OnePassAtATimeEachEntryOnce ==
  [][~hung' =>
       \A c \in Classes :
         /\ \A p, q \in PassStarts(log', c) :
              p < q => Between(PassEnds(log', c), p, q)
         /\ \A p \in PassStarts(log', c) : \E x \in PassEnds(log', c) : p < x
         /\ st'[c].passId = st[c].passId + Cardinality(PassStarts(log', c))
         /\ ~st'[c].applying
         /\ \A i \in 1 .. Len(st'[c].pending) :
              \A a, b \in Steps(log', "apply", i) :
                (a < b /\ log'[a].target = c /\ log'[b].target = c)
                  => Between(PassEnds(log', c), a, b)]_vars

\* C15 witness: during the only pass of a member-level attachment the entry's
\* invocation requested a resolution of its owner with v; the request was answered
\* (the owner's stored flavour is v) and the entry stays applied with the pass's variant
C15_Witness ==
  /\ last.op = "attach" /\ ~hung
  /\ Cardinality(PassStarts(log, last.target)) = 1
  /\ \E p \in PassStarts(log, last.target), u \in Requests(log),
        x \in PassEnds(log, last.target) : p < u /\ u < x
  /\ RecordedFlavour(last.target) = "v"
  /\ LastEntry(st[last.target]).lastAppliedFlavour = DefaultFlavour
  /\ Cardinality(Steps(log, "apply", Len(st[last.target].pending))) = 1

\* the entries of class c's queue that no operation has invoked yet
Uninvoked(state) == {i \in 1 .. Len(state.pending) : state.pending[i].lastAppliedPass = 0}
\* queue q2 still holds, at the same positions, the entries of queue q1
StaysQueued(q1, q2) ==
  /\ Len(q1) <= Len(q2)
  /\ \A i \in 1 .. Len(q1) :
       /\ q2[i].target = q1[i].target
       /\ q2[i].member = q1[i].member
       /\ q2[i].definitionKey = q1[i].definitionKey

\* C16: after an owner-level variant assignment uses(f)(c) or a read Metadata.get(c)
\* every entry queued for c has been invoked; a member-level attachment and every other
\* operation return without an error, and every entry that was queued stays in its
\* owner's queue.
C16_QueuedEntriesInvokedOrKept ==
  [][~hung' =>
       /\ last'.op \in {"uses", "get"} => Uninvoked(st'[last'.target]) = {}
       /\ last'.op \in {"attach", "uses", "get", "microtask"} => last'.exc = ""
       /\ \A c \in Classes : StaysQueued(st[c].pending, st'[c].pending)]_vars
C16_Witness ==
  /\ ~hung
  /\ last.op = "get"
  /\ Len(st[last.target].pending) = MaxPending
  /\ Uninvoked(st[last.target]) = {}

\* ---- builder validation
OnlyOneAllowed ==
  {"When using an overridable decorator, only one is allowed",
   "When extending using an overridable decorator, only one is allowed"}

\* C17: an extend() on a builder bound to the default variant (its key set) raises an
\* error and leaves the builder's extension set as it was.
C17_ExtendOnDefaultRejected ==
  [][(last'.op = "extend" /\ last'.flavour = DefaultFlavour /\ last'.key # NoKey)
       => (last'.exc # "" /\ cur' = cur /\ reg' = reg)]_vars

\* C18: a define() or extend() handed more than one {decorator, args} entry raises the
\* "only one is allowed" error and leaves the builder and the registry as they were.
C18_SeveralParameterizedRejected ==
  [][(last'.op \in {"define", "extend"} /\ last'.note = "several parameterized")
       => (last'.exc \in OnlyOneAllowed /\ cur' = cur /\ reg' = reg)]_vars
C18_Witness ==
  /\ last.op = "define"
  /\ last.note = "several parameterized"
  /\ last.exc \in OnlyOneAllowed
  /\ last.key # NoKey
  /\ reg # EmptyRegistry

\* C19: a define() handed exactly one {decorator, args} entry together with direct
\* decorators, on a builder whose key is set, is accepted: it raises no error and the
\* builder's base set becomes the entries given, in their order.
C19_OneParameterizedWithDirectAccepted ==
  [][(last'.op = "define" /\ last'.note = "one parameterized and direct"
        /\ last'.key # NoKey)
       => (last'.exc = "" /\ IsSome(cur'[1].decorators)
             /\ Len(cur'[1].decorators[1]) = 2)]_vars

\* C20: define(), extend() and apply() on a builder whose key was never set raise an
\* error and leave the registry, the builder and the set of returned decorators as
\* they were.
C20_NoKeyRejected ==
  [][(last'.op \in {"define", "extend", "apply"} /\ last'.key = NoKey)
       => (last'.exc # "" /\ reg' = reg /\ cur' = cur /\ wrappers' = wrappers)]_vars
C20_Witness ==
  /\ last.op = "extend"
  /\ last.key = NoKey
  /\ last.note = "direct"
  /\ last.exc = "key must be provided before decorators can be added"
  /\ reg # EmptyRegistry

\* ---- dispatch of unrecognized entries
\* the list a dispatch of key k resolved to variant f composes from the registry, and
\* whether the buckets it reads exist
ComposedEntries(k, f) ==
  ExpectedBase(k, f) \o ExtrasOf(reg[k][IF reg[k][f].present THEN f ELSE DefaultFlavour])
Composable(k, f) == reg[k][DefaultFlavour].present \/ Len(reg[k][f].decorators) > 0
Unrecognized(ds) == {i \in 1 .. Len(ds) : ds[i].kind = "bad"}
FirstUnrecognized(ds) == CHOOSE i \in Unrecognized(ds) : \A j \in Unrecognized(ds) : i <= j
OptEntries(o) == IF IsSome(o) THEN o[1] ELSE <<>>

RunEnd(lg, p) ==
  IF \E q \in p + 1 .. Len(lg) : lg[q].op # "call"
    THEN (CHOOSE q \in p + 1 .. Len(lg) :
            lg[q].op # "call" /\ \A x \in p + 1 .. q - 1 : lg[x].op = "call") - 1
  ELSE Len(lg)
Applications(lg, c) == {p \in 1 .. Len(lg) : lg[p].op = "apply" /\ lg[p].target = c}

\* C22: whenever a queued entry that captured argument lists at its attachment is
\* invoked, on its first application or on a replay, the j-th base entry of the list
\* composed for the variant in use, when it is a {decorator, args} object, is called
\* with the j-th captured list, whatever arguments the registry holds for it.
C22_EntryInvokedWithCapturedArgs ==
  [][~hung' =>
       \A c \in Owners : \A p \in Applications(log', c) :
         LET e == st'[c].pending[log'[p].idx]
             base == ExpectedBase(e.definitionKey, log'[p].name)
         IN IsSome(e.argsOverride) =>
              \A j \in DOMAIN e.argsOverride[1] :
                (j <= Len(base) /\ base[j].kind = "obj") =>
                   /\ p + j <= RunEnd(log', p)
                   /\ log'[p + j].args = e.argsOverride[1][j]]_vars
C22_Witness ==
  /\ ~hung /\ last.op = "uses" /\ last.flavour = "v"
  /\ Len(st["T"].pending) = 2
  /\ st["T"].pending[1].argsOverride = Some(1 :> <<"A">>)
  /\ st["T"].pending[2].argsOverride = Some(1 :> <<"B">>)
  /\ reg["k"][DefaultFlavour].decorators = <<ObjEntry("F", <<"B">>)>>
  /\ reg["k"]["v"].decorators = <<ObjNoArgs("F")>>
  /\ Steps(log, "revert", 1) # {} /\ Steps(log, "revert", 2) # {}
  /\ \E p \in Applications(log, "T") : log[p].idx = 1 /\ log[p + 1].args = <<"A">>
  /\ \E p \in Applications(log, "T") : log[p].idx = 2 /\ log[p + 1].args = <<"B">>

\* the positions of the invocations a dispatch made itself, in order
DirectCalls(lg) ==
  SelectSeq([n \in 1 .. Len(lg) |-> n], LAMBDA n : lg[n].op = "call" /\ ~InPass(lg, n))
\* the descriptor a member-level dispatch ends with when it invokes lg[from .. to] in
\* order, starting from descriptor cd
RECURSIVE ChainedDescriptor(_, _, _, _, _)
ChainedDescriptor(lg, from, to, member, cd) ==
  IF from > to THEN cd
  ELSE ChainedDescriptor(lg, from + 1, to, member,
         IF IsSome(BehResult(lg[from].name, member, cd))
           THEN BehResult(lg[from].name, member, cd) ELSE cd)
\* the last application of member m of class c recorded in the log
LastApplication(lg, c, p) ==
  \A q \in Applications(lg, c) : lg[q].member = lg[p].member => q <= p

\* C23: in an owner-level dispatch the first behaviour is handed the class the
\* dispatch was called with and every later behaviour the class the one before it
\* left (its replacement class when it returned one), and the dispatch returns the
\* class the last behaviour left; in a member-level dispatch every behaviour is handed
\* the descriptor the one before it left (its return value when not undefined), and
\* the descriptor the last one left is the one installed on the member.
C23_BehavioursAreChained ==
  [][~hung' =>
       /\ (IsDispatch(last') /\ last'.exc = "") =>
            LET calls == DirectCalls(log')
                n == Len(calls)
            IN /\ n > 0 => log'[calls[1]].target = last'.target
               /\ \A j \in 2 .. n :
                    log'[calls[j]].target =
                      BehTarget(log'[calls[j - 1]].name, log'[calls[j - 1]].target)
               /\ last'.ret = IF n = 0 THEN last'.target
                              ELSE BehTarget(log'[calls[n]].name, log'[calls[n]].target)
       /\ \A c \in Owners : \A p \in Applications(log', c) :
            LET e == st'[c].pending[log'[p].idx]
                to == RunEnd(log', p)
            IN (/\ LastApplication(log', c, p)
                /\ \A x \in p + 1 .. to : ~Throws(log'[x].name, e.member))
               => desc'[e.target][e.member] =
                    ChainedDescriptor(log', p + 1, to, e.member, e.descriptor)]_vars
C23_Witness ==
  /\ ~hung /\ IsDispatch(last) /\ last.exc = ""
  /\ last.target = "T" /\ last.ret = "U"
  /\ CallNames(log) = <<"Wrap", "Sub", "Wrap2">>
  /\ log[3].target = "U"
  /\ desc["T.prototype"]["m1"] = Some(<<"Wrap", "Wrap2">>)

\* the object {k1: child(k1), ...} for the keys in keys
Assemble(keys, child(_)) ==
  [q \in {<<>>} \cup UNION {{<<k>> \o x : x \in DOMAIN child(k)} : k \in keys} |->
     IF q = <<>> THEN [k |-> "obj", v |-> ""] ELSE child(q[1])[Tail(q)]]
\* what a derived value u makes of an ancestor value t: two plain objects are merged key
\* by key, the derived key winning recursively; anything else is u taken whole
RECURSIVE DeepMerged(_, _)
DeepMerged(t, u) ==
  IF isPlainObject(t) /\ isPlainObject(u)
    THEN LET child(k) ==
               IF <<k>> \notin DOMAIN u THEN DeepMerged(EmptyObj, Subtree(t, <<k>>))
               ELSE IF <<k>> \notin DOMAIN t THEN DeepMerged(EmptyObj, Subtree(u, <<k>>))
               ELSE DeepMerged(Subtree(t, <<k>>), Subtree(u, <<k>>))
         IN Assemble(OwnKeys(t, <<>>) \cup OwnKeys(u, <<>>), child)
  ELSE IF isPlainObject(u) THEN DeepMerged(EmptyObj, u)
  ELSE IF u[<<>>].k = "arr" THEN Arr(u[<<>>].v)
  ELSE u
\* the classes of the inheritance chain of c, most-base first
RECURSIVE Lineage(_)
Lineage(c) == IF ParentOf[c] \in Classes THEN Append(Lineage(ParentOf[c]), c) ELSE <<c>>
RECURSIVE MergedUpTo(_, _)
MergedUpTo(buckets, n) ==
  IF n = 0 THEN UndefV
  ELSE IF IsUndef(buckets[n]) THEN MergedUpTo(buckets, n - 1)
  ELSE IF IsUndef(MergedUpTo(buckets, n - 1)) THEN DeepMerged(EmptyObj, buckets[n])
  ELSE DeepMerged(MergedUpTo(buckets, n - 1), buckets[n])
OwnBuckets(c) == [i \in 1 .. Len(Lineage(c)) |-> meta[Symbol(Lineage(c)[i])]]

\* C24: Metadata.get on a class returns the buckets of its inheritance chain merged from
\* the most-base class to the class itself: plain objects are merged key by key, the
\* derived key winning recursively, and an array or a primitive is taken whole from
\* the most-derived class that defines it.
C24_GetMergesInheritanceChain ==
  (last.op = "get" /\ last.exc = "") =>
     last.value = MergedUpTo(OwnBuckets(last.target), Len(Lineage(last.target)))
C24_Witness ==
  /\ last.op = "get" /\ last.target = "U"
  /\ IsObjAt(meta[Symbol("T")], <<"a">>) /\ IsObjAt(meta[Symbol("U")], <<"a">>)
  /\ <<"a", "y">> \in DOMAIN meta[Symbol("T")] /\ <<"a", "y">> \notin DOMAIN meta[Symbol("U")]
  /\ meta[Symbol("T")][<<"a", "x">>] # meta[Symbol("U")][<<"a", "x">>]
  /\ last.value[<<"a", "x">>] = meta[Symbol("U")][<<"a", "x">>]
  /\ last.value[<<"a", "y">>] = meta[Symbol("T")][<<"a", "y">>]

\* C25: the chain merge is associative over three or more levels: merging (Base with
\* Mid) and then Derived gives what merging Base with (Mid merged with Derived) gives,
\* for every combination of plain objects, arrays and primitives on the levels.
C25_ChainMergeAssociative ==
  /\ last.op = "merge" =>
       last.value = mergeMetadataChain(
                      <<operands[1], MergedRange(operands, 2, Len(operands))>>, 2)
  /\ last.op = "regrouped" =>
       last.value = mergeMetadataChain(
                      <<MergedRange(operands, 1, Len(operands) - 1),
                        operands[Len(operands)]>>, 2)

\* C26: with mirroring enabled, a set on a class leaves the class with a mirrored field
\* that is non-enumerable, non-configurable and non-writable and refers to the live
\* bucket of the class, so the value just written is read through the field; the field,
\* once defined, is never redefined; with mirroring disabled no step defines a field.
C26_MirroredFieldRefersToLiveBucket ==
  [][\A c \in Classes :
       /\ IsSome(reflect[c]) => reflect'[c] = reflect[c]
       /\ ~mirror => reflect'[c] = reflect[c]
       /\ IsSome(reflect'[c]) =>
            /\ ~reflect'[c][1].enumerable
            /\ ~reflect'[c][1].configurable
            /\ ~reflect'[c][1].writable
            /\ reflect'[c][1].value = Symbol(c)
       /\ (last'.op = "set" /\ last'.target = c /\ mirror) =>
            /\ IsSome(reflect'[c])
            /\ \A path \in last'.names :
                 Subtree(meta'[reflect'[c][1].value], path) = last'.value]_vars
C26_Witness ==
  /\ last.op = "set" /\ mirror
  /\ IsSome(reflect[last.target])
  /\ Cardinality(OwnKeys(meta[reflect[last.target][1].value], <<>>)) >= 2
  /\ \A path \in last.names : Subtree(meta[reflect[last.target][1].value], path) = last.value

\* the names directly under `properties` in the own bucket of c
OwnPropertyNames(c) == {<<x>> : x \in OwnKeys(meta[Symbol(c)], <<KeyProperties>>)}
\* C27: for every class the properties index equals the set of the keys directly under
\* `properties` in the own bucket of the class, after any sequence of set calls (writes
\* to nested paths such as properties.<name>.<sub> included), and properties(c) lists
\* exactly those names.
C27_PropertiesIndexMatchesBucket ==
  /\ \A c \in Classes : pidx[Symbol(c)] = OwnPropertyNames(c)
  /\ (last.op = "properties" /\ last.exc = "") => last.names = OwnPropertyNames(last.target)

\* the variant recorded on class c (its own `flavour` entry), Undefined when there is none
RecordedVariant(c) ==
  IF Truthy(Subtree(meta[Symbol(c)], <<KeyFlavour>>))
    THEN Subtree(meta[Symbol(c)], <<KeyFlavour>>)[<<>>].v
  ELSE Undefined
\* the bucket of variant f as Metadata.flavouredAs(f) lists it
VariantBucket(m, f) == Elements(Subtree(m[SymbolFor(KeyFlavour)], <<f>>))
Occurrences(seq, x) == Cardinality({i \in DOMAIN seq : seq[i] = x})
\* C28: at all times every class that has been assigned a variant appears in exactly one
\* variant bucket, the one of its recorded variant, and appears there once.
C28_AssignedTargetInExactlyOneBucket ==
  \A c \in Classes :
    RecordedVariant(c) # Undefined =>
      \A f \in Flavours :
        Occurrences(VariantBucket(meta, f), c) = IF f = RecordedVariant(c) THEN 1 ELSE 0

\* C29: re-assigning a class to the variant it already has, in whose bucket it already
\* is, leaves the members of that bucket unchanged: the same members in the same order,
\* with no duplicate.
C29_ReassignKeepsBucket ==
  [][(/\ last'.op = "assign" /\ last'.exc = ""
      /\ RecordedVariant(last'.target) = last'.flavour
      /\ Occurrences(VariantBucket(meta, last'.flavour), last'.target) = 1) =>
       VariantBucket(meta', last'.flavour) = VariantBucket(meta, last'.flavour)]_vars

\* the version the registry records for a library name, Undefined when it records none
RecordedVersion(m, library) ==
  IF Subtree(m[SymbolFor(KeyLibraries)], library)[<<>>].k = "leaf"
    THEN Subtree(m[SymbolFor(KeyLibraries)], library)[<<>>].v
  ELSE Undefined
\* C30: registerLibrary(name, version) throws whenever name is already registered,
\* whatever the version given, and the rejected call leaves the registry as it was;
\* when name is not registered the call returns and records the pair.
C30_RegisterLibraryRejectsDuplicates ==
  [][last'.op = "registerLibrary" =>
       \A library \in last'.names :
         IF RecordedVersion(meta, library) # Undefined
           THEN last'.exc # "" /\ meta' = meta
         ELSE last'.exc = "" /\ RecordedVersion(meta', library) = last'.note]_vars

\* the parameter types that Metadata.params reports for method "run" of class c: the
\* list of the most-derived class of the chain of c that records one
RECURSIVE RecordedParams(_, _)
RecordedParams(m, c) ==
  IF c \notin Classes THEN UndefV
  ELSE IF Truthy(Subtree(m[Symbol(c)], <<KeyMethods, "run", DesignParams>>))
    THEN Subtree(m[Symbol(c)], <<KeyMethods, "run", DesignParams>>)
  ELSE RecordedParams(m, ParentOf[c])
RecordedCount(m, c) == Len(Elements(RecordedParams(m, c)))
\* C31 as stated: requesting parameter index i throws an error that mentions i whenever
\* i is at least the number of recorded parameters (none recorded counting as zero), and
\* returns the i-th recorded type otherwise.
C31_ParamThrowsBeyondRecorded ==
  last.op = "param" =>
    \A i \in last.names :
      IF i >= RecordedCount(meta, last.target)
        THEN last.exc = ParamError(last.member, i)
      ELSE last.exc = "" /\ last.value = Leaf(Elements(RecordedParams(meta, last.target))[i + 1])
\* C31 (amended): when a parameter list is recorded for the method, requesting index i
\* throws an error that mentions i whenever i is at least the length of the list and
\* returns the i-th recorded type otherwise; when no list is recorded the request
\* returns undefined for every index.
C31_ParamThrowsBeyondRecordedList ==
  last.op = "param" =>
    \A i \in last.names :
      IF ~Truthy(RecordedParams(meta, last.target))
        THEN last.exc = "" /\ last.value = UndefV
      ELSE IF i >= RecordedCount(meta, last.target)
        THEN last.exc = ParamError(last.member, i)
      ELSE last.exc = "" /\ last.value = Leaf(Elements(RecordedParams(meta, last.target))[i + 1])
C31_Witness ==
  /\ last.op = "param" /\ last.names = {2}
  /\ RecordedCount(meta, last.target) = 2
  /\ last.exc = ParamError("run", 2)

\* what Metadata.get(d) returns when the store holds the buckets m
GetValue(m, d) == MetadataGet([World EXCEPT !.meta = m], d, <<>>).value
\* d is c or a class derived from c
InheritsFrom(d, c) == \E i \in 1 .. Len(Lineage(d)) : Lineage(d)[i] = c
\* C32: two distinct classes never share a metadata bucket: a set on one target is not
\* visible through get on another target unless the second inherits from the first, even
\* when the two have the same name and the same source text.
C32_DistinctTargetsDistinctBuckets ==
  [][last'.op = "set" =>
       \A d \in MetaTargets :
         ~InheritsFrom(d, last'.target) => GetValue(meta', d) = GetValue(meta, d)]_vars

\* C33: a dispatch function obtained from a builder bound to an explicit non-default
\* variant always applies that variant's behaviours, in owner-level dispatches and in
\* member-level attachments alike, whatever the resolver returns and whatever variant
\* the owner is assigned.
C33_BoundVariantAlwaysApplied ==
  /\ (IsDispatch(last) /\ last.note # DefaultFlavour) => last.flavour = last.note
  /\ (last.op = "attach" /\ last.note # DefaultFlavour /\ ~hung /\ last.exc = "") =>
       LET pending == st[last.target].pending
       IN pending[Len(pending)].lastAppliedFlavour = last.note

\* C34: Metadata.get never mutates the store and returns a freshly computed value:
\* a get step leaves every bucket, the properties index and the mirrored fields as they
\* were; assigning into an object or array of the value a get returned changes what no
\* later get returns; and a set on an ancestor shows in the next get on a derived class
\* at every key the derived class does not define itself.
WrittenPath == CHOOSE p \in last.names : TRUE
BehaviourRoot(f) == IF f = DefaultFlavour THEN "d" ELSE f
C35_ReassignedVariantLeavesNoResidue ==
  [][\A c \in Owners :
       (/\ last'.op = "uses" /\ last'.target = c /\ last'.exc = "" /\ ~hung'
        /\ last'.flavour # DefaultFlavour
        /\ st[c].lastAppliedFlavour \notin {"", DefaultFlavour, last'.flavour}
        /\ Len(st'[c].pending) > 0
        /\ \A i \in 1 .. Len(st'[c].pending) :
              st'[c].pending[i].lastAppliedFlavour = last'.flavour)
       => \A g \in RegFlavours \ {last'.flavour} :
            <<BehaviourRoot(g)>> \notin DOMAIN meta'[Symbol(c)]]_vars

\* C36: every member-level attachment call and every resolution pass terminates after
\* invoking a bounded number of entries: no attachment, variant assignment or deferred
\* resolution enters a chain of further attachments on the same owner that has no end.
C36_AttachmentsAndPassesTerminate ==
  last.op \in {"attach", "uses", "microtask"} => ~hung

\* C37: a dispatch on a registered key never fails because a registry bucket is missing:
\* when the key has no bucket for the default variant and the target resolves to a
\* variant without a bucket or without a base set, the dispatch completes without
\* raising and invokes no entry of another variant (only the resolved variant's
\* extension entries, if it has any).
C37_DispatchSurvivesMissingBucket ==
  (/\ IsDispatch(last)
   /\ ~reg[last.key][DefaultFlavour].present
   /\ (~reg[last.key][last.flavour].present \/ Len(reg[last.key][last.flavour].decorators) = 0))
  => /\ last.exc = ""
     /\ CallNames(log) = Names(ExtrasOf(reg[last.key][last.flavour]))

\* C38: after every attachment and every resolution pass, the variant recorded for the
\* owner in the metadata store equals the variant with which the scheduler last applied
\* the owner's entries.
C38_RecordedVariantIsAppliedVariant ==
  \A c \in Owners :
    (/\ last.op \in {"attach", "uses", "microtask"} /\ last.target = c
     /\ ~hung /\ last.exc = ""
     /\ st[c].lastAppliedFlavour # "")
    => RecordedFlavour(c) = st[c].lastAppliedFlavour

\* C39: reverting an entry's recorded run never removes or changes anything under
\* `properties` in the owner's bucket nor any name of the owner's properties index: the
\* paths a revert changes lie outside `properties` and under a path of the diff, and
\* each such path of the diff is back at its previous value or gone afterwards.
DefinedBucket(b) == IF IsUndef(b) THEN EmptyObj ELSE b
ChangedPaths(before, after) ==
  {p \in (DOMAIN before \cup DOMAIN after) \ {<<>>} :
     p \notin DOMAIN before \/ p \notin DOMAIN after \/ before[p] # after[p]}
Reverts(lg) == {n \in 1 .. Len(lg) : lg[n].op = "revert"}
C39_RevertLeavesPropertiesAlone ==
  \A n \in Reverts(log) :
    LET before == DefinedBucket(log[n].effect.before)
        after == DefinedBucket(log[n].effect.after)
        diff == log[n].effect.diff
    IN /\ Subtree(after, <<KeyProperties>>) = Subtree(before, <<KeyProperties>>)
       /\ log[n].effect.indexAfter = log[n].effect.indexBefore
       /\ \A p \in ChangedPaths(before, after) :
            /\ p[1] # KeyProperties
            /\ \E e \in diff : IsPrefix(e.path, p) \/ IsPrefix(p, e.path)
       /\ \A e \in diff :
            e.path[1] # KeyProperties =>
              IF e.existed THEN Subtree(after, e.path) = e.previousValue
              ELSE e.path \notin DOMAIN after
C39_Witness ==
  \E n \in Reverts(log) :
    /\ \E e \in log[n].effect.diff : e.path = <<KeyProperties, "m1">> /\ ~e.existed
    /\ <<KeyProperties, "m1">> \in DOMAIN log[n].effect.after

====
